---- MODULE Spec2Model ----
(***************************************************************************)
(* State-machine model of the ACH processing front-end:                    *)
(*   - the authentication store (AuthContext: authReducer, checkAuth,      *)
(*     login, register, logout, updateProfile),                            *)
(*   - the typed backend client (ApiClient: token, request and response    *)
(*     interceptors, setToken / clearToken) and the browser's local        *)
(*     storage,                                                            *)
(*   - the query cache and the mutation handlers that patch it.            *)
(* Nullable values are modelled as sequences of length <= 1: <<>> is       *)
(* null / undefined, <<x>> is the value x.                                 *)
(***************************************************************************)
EXTENDS Naturals, Integers, Sequences, FiniteSets, TLC

VARIABLES
    state,        \* AuthProvider's reducer state {user, token, isLoading, isAuthenticated}
    apiToken,     \* ApiClient.token
    ls,           \* localStorage: keys authToken and userData
    pending,      \* backend calls in flight (issued, not yet answered)
    booted,       \* TRUE once the mount effect (checkAuth) has run in this document
    redirecting,  \* TRUE once window.location.href = '/login' was assigned
    lastOp,       \* history: the operation that produced the current state
    loggedOut,    \* history: logout() ran and no login/registration succeeded since
    paired,       \* history: the persisted token and the persisted user were written
                  \* from one and the same AuthResponse
    answer,       \* history: the backend's answer delivered by the step just taken, if any
    result,       \* the value the step just taken returned to the caller of login /
                  \* register / updateProfile, if any
    queries,      \* QueryCache: the queries in insertion order, {queryKey, data, isInvalidated}
    server,       \* the backend's transactions: id -> {status, rev}
    mut,          \* per mutation owner: the state of its (single) running mutation
    started,      \* number of mutations started so far
    retryer,      \* the retryer of one read or write: attempts, failures, backoff
    probe,        \* the configured retryDelay functions evaluated at one attempt index
    reads,        \* per query key: freshness of the cached value and the fetch in flight
    events,       \* history: what the step just taken did to each key it touched
    proxy,        \* the reverse proxy: the request it handled last and what it did
    guard,        \* the route guard: the navigation it saw last and what it did
    filters,      \* transactions page: the filters state (page included)
    pagination,   \* transactions page: the pagination of the last response
    mounted       \* the reads (hook and argument) that have an observer mounted

\* the session layer's variables (lastOp is shared by both layers)
sessionVars == <<state, apiToken, ls, pending, booted, redirecting, loggedOut, paired,
                 answer, result>>

cacheVars == <<queries, server, mut, started>>

retryVars == <<retryer, probe>>

readVars == <<reads, events>>

pageVars == <<guard, filters, pagination, mounted>>

vars == <<state, apiToken, ls, pending, booted, redirecting, lastOp, loggedOut, paired,
          answer, result, queries, server, mut, started, retryer, probe,
          reads, events, proxy, guard, filters, pagination, mounted>>

(***************************************************************************)
(* Bounds and value sets                                                   *)
(***************************************************************************)
MaxPending == 2

None == <<>>

Some(x) == <<x>>

\* JavaScript truthiness of a nullable string / object
Truthy(o) == o # None

Tokens == {"tA", "tB"}

\* user records the backend returns in an AuthResponse
Users ==
    { [id |-> "uA", email |-> "a@x", role |-> "operator"],
      [id |-> "uB", email |-> "b@x", role |-> "viewer"] }

\* updateProfile's argument {name?, email?}
ProfileUpdates == { [email |-> "new@x"] }

\* the error field of a backend envelope {success, data?, error?}: absent or a message
EnvelopeErrors == {None, Some("Invalid credentials")}

\* the statuses of a rejected call other than 401; 0 stands for no response at
\* all (network failure, timeout)
RejectStatuses == {0, 500}

\* the ApiClient calls made by AuthContext, which return a value to their caller
AuthCallers == {"login", "register", "updateProfile"}

\* an answer of the backend to a call of kind `kind`, as the caller receives it
Envelope(kind, status, success, data, error) ==
    [kind |-> kind, status |-> status, success |-> success, data |-> data,
     error |-> error]

\* the error field in the body of a rejected call: the backend's error envelope
\* for an HTTP status, nothing when there was no response
RejectedError(status) == IF status = 0 THEN None ELSE Some("Invalid credentials")

\* AxiosError.message of a rejected call
AxiosMessage(status) ==
    IF status = 0 THEN "Network Error"
    ELSE IF status = 401 THEN "Request failed with status code 401"
    ELSE "Request failed with status code 500"

\* {success: true} / {success: false, error}
Returned(success, error) == [success |-> success, error |-> error]

\* response.error || fallback
OrElse(error, fallback) == IF Truthy(error) THEN error ELSE Some(fallback)

\* the fallback messages of login, register and updateProfile
Fallback(kind) ==
    CASE kind = "login" -> "Login failed"
      [] kind = "register" -> "Registration failed"
      [] OTHER -> "Profile update failed"

(***************************************************************************)
(* AuthContext: reducer                                                    *)
(***************************************************************************)
initialState ==
    [user |-> None, token |-> None, isLoading |-> TRUE, isAuthenticated |-> FALSE]

\* {...user, ...payload}: the payload's fields override the user's
Spread(user, payload) ==
    [f \in DOMAIN user |-> IF f \in DOMAIN payload THEN payload[f] ELSE user[f]]

authReducer_clearKeepsFlag(s, action) ==
    CASE action.type = "SET_LOADING" ->
           [s EXCEPT !.isLoading = action.payload]
      [] action.type = "SET_USER" ->
           [s EXCEPT !.user = action.payload.user,
                     !.token = action.payload.token,
                     !.isAuthenticated = TRUE,
                     !.isLoading = FALSE]
      [] action.type = "CLEAR_USER" ->
           [s EXCEPT !.user = None, !.token = None, !.isLoading = FALSE]
      [] action.type = "UPDATE_USER" ->
           [s EXCEPT !.user = IF Truthy(s.user)
                                 THEN Some(Spread(s.user[1], action.payload))
                                 ELSE None]
      [] OTHER -> s

authReducer(s, action) ==
    CASE action.type = "SET_LOADING" ->
           [s EXCEPT !.isLoading = action.payload]
      [] action.type = "SET_USER" ->
           [s EXCEPT !.user = action.payload.user,
                     !.token = action.payload.token,
                     !.isAuthenticated = TRUE,
                     !.isLoading = FALSE]
      [] action.type = "CLEAR_USER" ->
           [s EXCEPT !.user = None,
                     !.token = None,
                     !.isAuthenticated = FALSE,
                     !.isLoading = FALSE]
      [] action.type = "UPDATE_USER" ->
           [s EXCEPT !.user = IF Truthy(s.user)
                                 THEN Some(Spread(s.user[1], action.payload))
                                 ELSE None]
      [] OTHER -> s

SET_LOADING(b) == [type |-> "SET_LOADING", payload |-> b]

SET_USER(u, t) == [type |-> "SET_USER", payload |-> [user |-> u, token |-> t]]

CLEAR_USER == [type |-> "CLEAR_USER"]

UPDATE_USER(p) == [type |-> "UPDATE_USER", payload |-> p]

\* a placeholder without privileges
minimalUser_viewer ==
    [id |-> "temp-user", email |-> "user@example.com", role |-> "viewer"]

\* the placeholder user checkAuth fabricates
minimalUser ==
    [id |-> "temp-user", email |-> "user@example.com", role |-> "admin"]

(***************************************************************************)
(* JSON.stringify / JSON.parse of the persisted user record                *)
(***************************************************************************)
JSONstringify(u) == [json |-> u]

JSONvalid(s) == DOMAIN s = {"json"}

JSONparse(s) == s.json

(***************************************************************************)
(* ApiClient: token handling and interceptors                              *)
(***************************************************************************)
\* request interceptor: Authorization: Bearer <token> only when a token is held
requestInterceptor(token) ==
    IF Truthy(token) THEN Some(token) ELSE None

\* useDownloadNACHAFile: fetch(...) with 'Authorization': `Bearer ${apiClient['token']}`
downloadHeaders(token) == Some(token)

ClientKinds == {"login", "register", "updateProfile", "api"}

ClientCall(kind, arg) ==
    [kind |-> kind, auth |-> requestInterceptor(apiToken),
     arg |-> arg, afterLogout |-> loggedOut]

DownloadCall ==
    [kind |-> "download", auth |-> downloadHeaders(apiToken),
     arg |-> None, afterLogout |-> loggedOut]

CanIssue == booted /\ Cardinality(pending) < MaxPending

\* setToken(token): this.token = token; localStorage.setItem('authToken', token)
setToken(store, token) == [store EXCEPT !.authToken = Some(token)]

\* clearToken(): this.token = null; localStorage.removeItem('authToken')
clearToken(store) == [store EXCEPT !.authToken = None]

(***************************************************************************)
(* App start: the ApiClient constructor has loaded the token from local    *)
(* storage (Init / Reload); the mount effect then runs checkAuth once.     *)
(***************************************************************************)
checkAuth ==
    /\ ~booted
    /\ booted' = TRUE
    /\ lastOp' = "checkAuth"
    /\ state' =
         IF Truthy(apiToken)
           THEN IF Truthy(ls.userData) /\ JSONvalid(ls.userData[1])
                  THEN authReducer(state, SET_USER(JSONparse(ls.userData[1]), apiToken))
                  ELSE authReducer(state, SET_USER(Some(minimalUser), apiToken))
           ELSE authReducer(state, SET_LOADING(FALSE))
    /\ answer' = None
    /\ result' = None
    /\ UNCHANGED cacheVars
    /\ UNCHANGED retryVars
    /\ UNCHANGED readVars
    /\ UNCHANGED proxy
    /\ UNCHANGED pageVars
    /\ UNCHANGED <<apiToken, ls, pending, redirecting, loggedOut, paired>>

\* a (re)load of the document: module state is rebuilt, local storage survives,
\* the calls of the old document are abandoned
Reload ==
    /\ booted
    /\ booted' = FALSE
    /\ state' = initialState
    /\ apiToken' = ls.authToken
    /\ pending' = {}
    /\ redirecting' = FALSE
    /\ lastOp' = "reload"
    /\ answer' = None
    /\ result' = None
    /\ UNCHANGED cacheVars
    /\ UNCHANGED retryVars
    /\ UNCHANGED readVars
    /\ UNCHANGED proxy
    /\ UNCHANGED pageVars
    /\ UNCHANGED <<ls, loggedOut, paired>>

(***************************************************************************)
(* login(email, password)                                                  *)
(***************************************************************************)
\* up to the await: dispatch SET_LOADING true, issue POST /api/auth/login
loginStart ==
    /\ CanIssue
    /\ state' = authReducer(state, SET_LOADING(TRUE))
    /\ pending' = pending \cup {ClientCall("login", None)}
    /\ lastOp' = "loginStart"
    /\ answer' = None
    /\ result' = None
    /\ UNCHANGED cacheVars
    /\ UNCHANGED retryVars
    /\ UNCHANGED readVars
    /\ UNCHANGED proxy
    /\ UNCHANGED pageVars
    /\ UNCHANGED <<apiToken, ls, booted, redirecting, loggedOut, paired>>

\* a login that keeps the session in memory only
loginSuccess_notPersisted(c, user, token) ==
    /\ c \in pending /\ c.kind = "login"
    /\ pending' = pending \ {c}
    /\ apiToken' = Some(token)
    /\ ls' = ls
    /\ state' = authReducer(authReducer(state, SET_USER(Some(user), Some(token))),
                            SET_LOADING(FALSE))
    /\ loggedOut' = FALSE
    /\ paired' = paired
    /\ lastOp' = "loginSuccess"
    /\ answer' = Some(Envelope(c.kind, 200, TRUE, Some([user |-> user, token |-> token]), None))
    /\ result' = Some(Returned(TRUE, None))
    /\ UNCHANGED cacheVars
    /\ UNCHANGED retryVars
    /\ UNCHANGED readVars
    /\ UNCHANGED proxy
    /\ UNCHANGED pageVars
    /\ UNCHANGED <<booted, redirecting>>

\* response.success && response.data
loginSuccess(c, user, token) ==
    /\ c \in pending /\ c.kind = "login"
    /\ pending' = pending \ {c}
    /\ apiToken' = Some(token)
    /\ ls' = [setToken(ls, token) EXCEPT !.userData = Some(JSONstringify(Some(user)))]
    /\ state' = authReducer(authReducer(state, SET_USER(Some(user), Some(token))),
                            SET_LOADING(FALSE))
    /\ loggedOut' = FALSE
    /\ paired' = TRUE
    /\ lastOp' = "loginSuccess"
    /\ answer' = Some(Envelope(c.kind, 200, TRUE, Some([user |-> user, token |-> token]), None))
    /\ result' = Some(Returned(TRUE, None))
    /\ UNCHANGED cacheVars
    /\ UNCHANGED retryVars
    /\ UNCHANGED readVars
    /\ UNCHANGED proxy
    /\ UNCHANGED pageVars
    /\ UNCHANGED <<booted, redirecting>>

\* a 2xx envelope with success = false (or without data)
loginFailure(c, error) ==
    /\ c \in pending /\ c.kind = "login"
    /\ pending' = pending \ {c}
    /\ state' = authReducer(state, SET_LOADING(FALSE))
    /\ lastOp' = "loginFailure"
    /\ answer' = Some(Envelope(c.kind, 200, FALSE, None, error))
    /\ result' = Some(Returned(FALSE, OrElse(error, Fallback("login"))))
    /\ UNCHANGED cacheVars
    /\ UNCHANGED retryVars
    /\ UNCHANGED readVars
    /\ UNCHANGED proxy
    /\ UNCHANGED pageVars
    /\ UNCHANGED <<apiToken, ls, booted, redirecting, loggedOut, paired>>

(***************************************************************************)
(* register(email, password, name)                                         *)
(***************************************************************************)
registerStart ==
    /\ CanIssue
    /\ state' = authReducer(state, SET_LOADING(TRUE))
    /\ pending' = pending \cup {ClientCall("register", None)}
    /\ lastOp' = "registerStart"
    /\ answer' = None
    /\ result' = None
    /\ UNCHANGED cacheVars
    /\ UNCHANGED retryVars
    /\ UNCHANGED readVars
    /\ UNCHANGED proxy
    /\ UNCHANGED pageVars
    /\ UNCHANGED <<apiToken, ls, booted, redirecting, loggedOut, paired>>

registerSuccess(c, user, token) ==
    /\ c \in pending /\ c.kind = "register"
    /\ pending' = pending \ {c}
    /\ apiToken' = Some(token)
    /\ ls' = setToken(ls, token)
    /\ state' = authReducer(state, SET_USER(Some(user), Some(token)))
    /\ loggedOut' = FALSE
    /\ paired' = FALSE
    /\ lastOp' = "registerSuccess"
    /\ answer' = Some(Envelope(c.kind, 200, TRUE, Some([user |-> user, token |-> token]), None))
    /\ result' = Some(Returned(TRUE, None))
    /\ UNCHANGED cacheVars
    /\ UNCHANGED retryVars
    /\ UNCHANGED readVars
    /\ UNCHANGED proxy
    /\ UNCHANGED pageVars
    /\ UNCHANGED <<booted, redirecting>>

registerFailure(c, error) ==
    /\ c \in pending /\ c.kind = "register"
    /\ pending' = pending \ {c}
    /\ state' = authReducer(state, SET_LOADING(FALSE))
    /\ lastOp' = "registerFailure"
    /\ answer' = Some(Envelope(c.kind, 200, FALSE, None, error))
    /\ result' = Some(Returned(FALSE, OrElse(error, Fallback("register"))))
    /\ UNCHANGED cacheVars
    /\ UNCHANGED retryVars
    /\ UNCHANGED readVars
    /\ UNCHANGED proxy
    /\ UNCHANGED pageVars
    /\ UNCHANGED <<apiToken, ls, booted, redirecting, loggedOut, paired>>

(***************************************************************************)
(* logout()                                                                *)
(***************************************************************************)
logout_keepsUserData ==
    /\ booted
    /\ apiToken' = None
    /\ ls' = clearToken(ls)
    /\ state' = authReducer(state, CLEAR_USER)
    /\ loggedOut' = TRUE
    /\ paired' = FALSE
    /\ lastOp' = "logout"
    /\ answer' = None
    /\ result' = None
    /\ UNCHANGED cacheVars
    /\ UNCHANGED retryVars
    /\ UNCHANGED readVars
    /\ UNCHANGED proxy
    /\ UNCHANGED pageVars
    /\ UNCHANGED <<pending, booted, redirecting>>

logout ==
    /\ booted
    /\ apiToken' = None
    /\ ls' = [clearToken(ls) EXCEPT !.userData = None]
    /\ state' = authReducer(state, CLEAR_USER)
    /\ loggedOut' = TRUE
    /\ paired' = FALSE
    /\ lastOp' = "logout"
    /\ answer' = None
    /\ result' = None
    /\ UNCHANGED cacheVars
    /\ UNCHANGED retryVars
    /\ UNCHANGED readVars
    /\ UNCHANGED proxy
    /\ UNCHANGED pageVars
    /\ UNCHANGED <<pending, booted, redirecting>>

(***************************************************************************)
(* updateProfile(updates)                                                  *)
(***************************************************************************)
updateProfileStart(updates) ==
    /\ CanIssue
    /\ pending' = pending \cup {ClientCall("updateProfile", Some(updates))}
    /\ lastOp' = "updateProfileStart"
    /\ answer' = None
    /\ result' = None
    /\ UNCHANGED cacheVars
    /\ UNCHANGED retryVars
    /\ UNCHANGED readVars
    /\ UNCHANGED proxy
    /\ UNCHANGED pageVars
    /\ UNCHANGED <<state, apiToken, ls, booted, redirecting, loggedOut, paired>>

updateProfileSuccess(c) ==
    /\ c \in pending /\ c.kind = "updateProfile"
    /\ pending' = pending \ {c}
    /\ state' = authReducer(state, UPDATE_USER(c.arg[1]))
    /\ lastOp' = "updateProfileSuccess"
    /\ answer' = Some(Envelope(c.kind, 200, TRUE, None, None))
    /\ result' = Some(Returned(TRUE, None))
    /\ UNCHANGED cacheVars
    /\ UNCHANGED retryVars
    /\ UNCHANGED readVars
    /\ UNCHANGED proxy
    /\ UNCHANGED pageVars
    /\ UNCHANGED <<apiToken, ls, booted, redirecting, loggedOut, paired>>

(***************************************************************************)
(* Any other ApiClient method (getTransactions, ...) and the NACHA         *)
(* download, which bypasses the client and calls fetch directly            *)
(***************************************************************************)
apiCallStart ==
    /\ CanIssue
    /\ pending' = pending \cup {ClientCall("api", None)}
    /\ lastOp' = "apiCallStart"
    /\ answer' = None
    /\ result' = None
    /\ UNCHANGED cacheVars
    /\ UNCHANGED retryVars
    /\ UNCHANGED readVars
    /\ UNCHANGED proxy
    /\ UNCHANGED pageVars
    /\ UNCHANGED <<state, apiToken, ls, booted, redirecting, loggedOut, paired>>

downloadStart ==
    /\ CanIssue
    /\ pending' = pending \cup {DownloadCall}
    /\ lastOp' = "downloadStart"
    /\ answer' = None
    /\ result' = None
    /\ UNCHANGED cacheVars
    /\ UNCHANGED retryVars
    /\ UNCHANGED readVars
    /\ UNCHANGED proxy
    /\ UNCHANGED pageVars
    /\ UNCHANGED <<state, apiToken, ls, booted, redirecting, loggedOut, paired>>

\* a call whose answer changes nothing in the session: a 2xx answer to an "api"
\* call, any answer to the fetch download (no interceptor), and an
\* updateProfile envelope with success = false
callSettles(c, error) ==
    /\ c \in pending /\ c.kind \in {"api", "download", "updateProfile"}
    /\ pending' = pending \ {c}
    /\ c.kind # "updateProfile" => error = None
    /\ lastOp' = "callSettles"
    /\ answer' = (IF c.kind = "updateProfile"
                   THEN Some(Envelope(c.kind, 200, FALSE, None, error))
                   ELSE None)
    /\ result' = (IF c.kind = "updateProfile"
                   THEN Some(Returned(FALSE, OrElse(error, Fallback(c.kind))))
                   ELSE None)
    /\ UNCHANGED cacheVars
    /\ UNCHANGED retryVars
    /\ UNCHANGED readVars
    /\ UNCHANGED proxy
    /\ UNCHANGED pageVars
    /\ UNCHANGED <<state, apiToken, ls, booted, redirecting, loggedOut, paired>>

(***************************************************************************)
(* Rejected ApiClient calls: the response interceptor, then the caller's   *)
(* catch block (login and register dispatch SET_LOADING false)             *)
(***************************************************************************)
callerCatch(c, s) ==
    IF c.kind \in {"login", "register"} THEN authReducer(s, SET_LOADING(FALSE)) ELSE s

\* what the catch block returns: error instanceof Error ? error.message : '...'
\* (an AxiosError is an Error); other ApiClient calls have no caller in AuthContext
callerReturn(c, status) ==
    IF c.kind \in AuthCallers
      THEN Some(Returned(FALSE, Some(AxiosMessage(status))))
      ELSE None

\* error.response.status === 401
responseInterceptor401(c) ==
    /\ c \in pending /\ c.kind \in ClientKinds
    /\ pending' = pending \ {c}
    /\ apiToken' = None
    /\ ls' = clearToken(ls)
    /\ redirecting' = TRUE
    /\ state' = callerCatch(c, state)
    /\ lastOp' = "401"
    /\ answer' = (IF c.kind \in AuthCallers
                   THEN Some(Envelope(c.kind, 401, FALSE, None, RejectedError(401)))
                   ELSE None)
    /\ result' = callerReturn(c, 401)
    /\ UNCHANGED cacheVars
    /\ UNCHANGED retryVars
    /\ UNCHANGED readVars
    /\ UNCHANGED proxy
    /\ UNCHANGED pageVars
    /\ paired' = FALSE
    /\ UNCHANGED <<booted, loggedOut>>

\* any other rejection (another status, a network failure, a timeout)
responseInterceptorOther(c, status) ==
    /\ c \in pending /\ c.kind \in ClientKinds
    /\ pending' = pending \ {c}
    /\ state' = callerCatch(c, state)
    /\ lastOp' = "rejected"
    /\ answer' = (IF c.kind \in AuthCallers
                   THEN Some(Envelope(c.kind, status, FALSE, None, RejectedError(status)))
                   ELSE None)
    /\ result' = callerReturn(c, status)
    /\ UNCHANGED cacheVars
    /\ UNCHANGED retryVars
    /\ UNCHANGED readVars
    /\ UNCHANGED proxy
    /\ UNCHANGED pageVars
    /\ UNCHANGED <<apiToken, ls, booted, redirecting, loggedOut, paired>>

(***************************************************************************)
(* Query cache.  queryKeys as in lib/query-client; a filter object is      *)
(* named by a string, "undefined" being the missing argument.              *)
(***************************************************************************)
MaxMutations == 2

TxIds == {"t1", "t2"}

\* the rows of a transaction list, in the order the backend returns them
TxOrder == <<"t1", "t2">>

NoFilters == "undefined"

Filters == {"page1"}

transactions == <<"transactions">>

transactionsList(listFilters) == <<"transactions", "list", listFilters>>

transactionDetail(id) == <<"transactions", "detail", id>>

transactionStats == <<"transactions", "stats">>

currentUser == <<"auth", "currentUser">>

\* the transaction shown by the OptimisticTransactionStatus instance
StatusTx == "t1"

\* the keys that occur in the cache
QueryKeys ==
    {transactionsList(NoFilters)} \cup {transactionsList(f) : f \in Filters}
      \cup {transactionDetail(StatusTx), transactionStats}

\* the keys a page or the prefetcher mounts (useTransactions, useTransactionStats,
\* DataPrefetcher); no page mounts useTransaction(id): a detail entry is built by
\* the setQueryData of a mutation's onSuccess and refetched once invalidated
MountedKeys == QueryKeys \ {transactionDetail(StatusTx)}

\* partial (prefix) match of a query filter's queryKey
partialMatchKey(prefix, key) ==
    /\ Len(prefix) <= Len(key)
    /\ \A i \in 1..Len(prefix) : key[i] = prefix[i]

\* values held by cache entries: an array of transactions [items |-> <<tx, ...>>],
\* one transaction [id, status, rev], or the stats object [processed |-> n]
IsArray(v) == "items" \in DOMAIN v

\* tx => ids.includes(tx.id) ? {...tx, status} : tx
withStatus(ids, status, tx) ==
    IF tx.id \in ids THEN [tx EXCEPT !.status = status] ELSE tx

\* tx => tx.id === id ? updatedTransaction : tx
withServerTx(updated, tx) == IF tx.id = updated.id THEN updated ELSE tx

\* the two arrow functions given to oldData.map, with the values they close over
StatusMapper(ids, status) == [fn |-> "withStatus", ids |-> ids, status |-> status]

ServerTxMapper(updated) == [fn |-> "withServerTx", updated |-> updated]

ApplyMapper(f, tx) ==
    IF f.fn = "withStatus" THEN withStatus(f.ids, f.status, tx)
    ELSE withServerTx(f.updated, tx)

\* oldData.map(f)
MapItems(v, f) == [items |-> [i \in DOMAIN v.items |-> ApplyMapper(f, v.items[i])]]

MinOf(S) == CHOOSE x \in S : \A y \in S : x <= y

IndexOf(q, key) ==
    IF \E i \in 1..Len(q) : q[i].queryKey = key
      THEN CHOOSE i \in 1..Len(q) : q[i].queryKey = key
      ELSE 0

getQueryData(q, key) ==
    IF IndexOf(q, key) = 0 THEN None ELSE q[IndexOf(q, key)].data

\* setQueryData(key, data): undefined data is ignored; the query is built when
\* missing; setting data clears isInvalidated
setQueryData(q, key, data) ==
    IF data = None THEN q
    ELSE IF IndexOf(q, key) = 0
      THEN Append(q, [queryKey |-> key, data |-> data, isInvalidated |-> FALSE])
      ELSE [q EXCEPT ![IndexOf(q, key)] = [@ EXCEPT !.data = data, !.isInvalidated = FALSE]]

\* the updaters given to setQueriesData all have the shape
\*   (oldData) => oldData ? oldData.map(f) : oldData
\* oldData.map throws a TypeError when oldData is defined and not an array
UpdaterThrows(oldData) == Truthy(oldData) /\ ~IsArray(oldData[1])

\* setQueriesData({queryKey: prefix}, updater): the matching queries are visited in
\* cache order; the writes made before an updater throws stay in the cache
setQueriesData(q, prefix, f) ==
    LET matches(i) == partialMatchKey(prefix, q[i].queryKey)
        bad == {i \in 1..Len(q) : matches(i) /\ UpdaterThrows(q[i].data)}
        stop == IF bad = {} THEN Len(q) + 1 ELSE MinOf(bad)
    IN  [queries |->
           [i \in 1..Len(q) |->
              IF i < stop /\ matches(i) /\ Truthy(q[i].data)
                THEN [q[i] EXCEPT !.data = Some(MapItems(q[i].data[1], f)),
                                  !.isInvalidated = FALSE]
                ELSE q[i]],
         threw |-> bad # {}]

\* invalidateQueries({queryKey: prefix})
invalidateQueries(q, prefix) ==
    [i \in 1..Len(q) |->
       IF partialMatchKey(prefix, q[i].queryKey)
         THEN [q[i] EXCEPT !.isInvalidated = TRUE]
         ELSE q[i]]

(***************************************************************************)
(* The backend's answers to the reads                                      *)
(***************************************************************************)
TxOf(srv, id) == [id |-> id, status |-> srv[id].status, rev |-> srv[id].rev]

getTransactions(srv) == [items |-> [i \in 1..Len(TxOrder) |-> TxOf(srv, TxOrder[i])]]

getTransactionStats(srv) ==
    [processed |-> Cardinality({id \in TxIds : srv[id].status = "processed"})]

queryFn(key, srv) ==
    CASE key[2] = "list" -> getTransactions(srv)
      [] key[2] = "detail" -> TxOf(srv, key[3])
      [] key[2] = "stats" -> getTransactionStats(srv)

\* PATCH /api/transactions/{id}/status accepted for the ids in `ids`
updateTransactionStatus(srv, ids, status) ==
    [id \in TxIds |->
       IF id \in ids THEN [status |-> status, rev |-> srv[id].rev + 1] ELSE srv[id]]

\* a read resolves with the backend's current answer: the first fetch of a
\* query (which builds it) or the refetch of an invalidated one
QueryFetch(key) ==
    /\ IF IndexOf(queries, key) = 0 THEN key \in MountedKeys
       ELSE queries[IndexOf(queries, key)].isInvalidated
    /\ queries' = setQueryData(queries, key, Some(queryFn(key, server)))
    /\ lastOp' = "fetch"
    /\ UNCHANGED <<server, mut, started>>
    /\ UNCHANGED sessionVars
    /\ UNCHANGED retryVars
    /\ UNCHANGED readVars
    /\ UNCHANGED proxy
    /\ UNCHANGED pageVars

(***************************************************************************)
(* Mutations of the optimistic components.  useMutation runs onMutate,     *)
(* then the mutationFn; when the backend answers it runs onSuccess or      *)
(* onError, then onSettled; a handler that throws sends the mutation to    *)
(* onError with the context stored so far.  Between a thrown handler and   *)
(* onSettled, and between the arrival of the answer and onSettled, only    *)
(* promise continuations run, so each is one step of the event loop.       *)
(***************************************************************************)
OptimisticOwners == {"status", "bulk"}

\* the mutations of hooks/useTransactions
HookOwners == {"useUpdateTransactionStatus", "useBulkUpdateTransactions"}

Owners == OptimisticOwners \cup HookOwners

\* a mutation that is not running; its context is discarded
IdleMutation ==
    [status |-> "idle", seq |-> 0, variables |-> None, context |-> None, before |-> None]

\* the controls are disabled while isUpdating
CanMutate(o) == mut[o].status # "pending" /\ started < MaxMutations

\* ---- OptimisticTransactionStatus ------------------------------------------
statusOnMutate(q, newStatus) ==
    LET previousTransaction == getQueryData(q, transactionDetail(StatusTx))
        previousTransactions == getQueryData(q, transactionsList(NoFilters))
        q1 == IF Truthy(previousTransaction)
                THEN setQueryData(q, transactionDetail(StatusTx),
                                  Some([previousTransaction[1] EXCEPT !.status = newStatus]))
                ELSE q
        r == setQueriesData(q1, transactions,
                            StatusMapper({StatusTx}, newStatus))
    IN  [queries |-> r.queries,
         threw |-> r.threw,
         context |-> IF r.threw THEN None
                     ELSE Some([previousTransaction |-> previousTransaction,
                                previousTransactions |-> previousTransactions])]

statusOnSuccess(q, updatedTransaction) ==
    setQueriesData(
        setQueryData(q, transactionDetail(StatusTx), Some(updatedTransaction)),
        transactions,
        ServerTxMapper(updatedTransaction))

\* a rollback that gives way to a newer mutation still in flight
statusOnError_newerWins(q, context) ==
    IF \E p \in DOMAIN mut : mut[p].status = "pending" /\ mut[p].seq > mut["status"].seq
      THEN q
      ELSE IF Truthy(context) /\ Truthy(context[1].previousTransactions)
             THEN setQueryData(q, transactionsList(NoFilters),
                               context[1].previousTransactions)
             ELSE q

\* onError: context?.previousTransaction, context?.previousTransactions
statusOnError(q, context) ==
    LET q1 == IF Truthy(context) /\ Truthy(context[1].previousTransaction)
                THEN setQueryData(q, transactionDetail(StatusTx),
                                  context[1].previousTransaction)
                ELSE q
    IN  IF Truthy(context) /\ Truthy(context[1].previousTransactions)
          THEN setQueryData(q1, transactionsList(NoFilters),
                            context[1].previousTransactions)
          ELSE q1

statusOnSettled(q) ==
    invalidateQueries(invalidateQueries(q, transactionDetail(StatusTx)), transactionStats)

\* handleStatusChange -> mutate(newStatus): onMutate, then the PATCH is issued;
\* a throwing onMutate goes to onError (no context) and onSettled at once
statusMutate(newStatus) ==
    LET r == statusOnMutate(queries, newStatus)
    IN  /\ CanMutate("status")
        /\ started' = started + 1
        /\ queries' = IF r.threw
                        THEN statusOnSettled(statusOnError(r.queries, None))
                        ELSE r.queries
        /\ mut' = [mut EXCEPT !["status"] =
                     IF r.threw
                       THEN IdleMutation
                       ELSE [status |-> "pending",
                             seq |-> started + 1,
                             variables |-> Some(newStatus),
                             context |-> r.context,
                             before |-> Some(queries)]]
        /\ UNCHANGED server
        /\ lastOp' = (IF r.threw THEN "statusMutate: onMutate threw" ELSE "statusMutate")
        /\ UNCHANGED sessionVars
        /\ UNCHANGED retryVars
        /\ UNCHANGED readVars
        /\ UNCHANGED proxy
        /\ UNCHANGED pageVars

\* the PATCH is accepted; response.data is the updated transaction; onSuccess,
\* (onError when onSuccess throws,) onSettled
statusResponseOk ==
    LET srv == updateTransactionStatus(server, {StatusTx}, mut["status"].variables[1])
        r == statusOnSuccess(queries, TxOf(srv, StatusTx))
    IN  /\ mut["status"].status = "pending"
        /\ server' = srv
        /\ queries' = IF r.threw
                        THEN statusOnSettled(statusOnError(r.queries, mut["status"].context))
                        ELSE statusOnSettled(r.queries)
        /\ mut' = [mut EXCEPT !["status"] =
                     IdleMutation]
        /\ UNCHANGED started
        /\ lastOp' = (IF r.threw THEN "statusResponseOk: onSuccess threw" ELSE "statusResponseOk")
        /\ UNCHANGED sessionVars
        /\ UNCHANGED retryVars
        /\ UNCHANGED readVars
        /\ UNCHANGED proxy
        /\ UNCHANGED pageVars

\* the PATCH is rejected: onError, onSettled
statusResponseFails ==
    /\ mut["status"].status = "pending"
    /\ queries' = statusOnSettled(statusOnError(queries, mut["status"].context))
    /\ mut' = [mut EXCEPT !["status"] = IdleMutation]
    /\ UNCHANGED <<server, started>>
    /\ lastOp' = (IF Truthy(mut["status"].context[1].previousTransactions)
                     THEN "statusResponseFails: list restored"
                     ELSE "statusResponseFails")
    /\ UNCHANGED sessionVars
    /\ UNCHANGED retryVars
    /\ UNCHANGED readVars
    /\ UNCHANGED proxy
    /\ UNCHANGED pageVars

\* ---- OptimisticBulkActions --------------------------------------------------
bulkOnMutate(q, ids, status) ==
    LET previousData == getQueryData(q, transactionsList(NoFilters))
        r == setQueriesData(q, transactions, StatusMapper(ids, status))
    IN  [queries |-> r.queries,
         threw |-> r.threw,
         context |-> IF r.threw THEN None
                     ELSE Some([previousData |-> previousData, ids |-> ids])]

\* onSuccess touches component state only (optimisticUpdates, the selection)
bulkOnSuccess(q) == q

\* a rollback that restores nothing
bulkOnError_keepsOptimistic(q, context) == q

\* onError: context?.previousData
bulkOnError(q, context) ==
    IF Truthy(context) /\ Truthy(context[1].previousData)
      THEN setQueryData(q, transactionsList(NoFilters), context[1].previousData)
      ELSE q

bulkOnSettled(q) ==
    invalidateQueries(invalidateQueries(q, transactions), transactionStats)

bulkMutate(ids, status) ==
    LET r == bulkOnMutate(queries, ids, status)
    IN  /\ CanMutate("bulk")
        /\ started' = started + 1
        /\ queries' = IF r.threw
                        THEN bulkOnSettled(bulkOnError(r.queries, None))
                        ELSE r.queries
        /\ mut' = [mut EXCEPT !["bulk"] =
                     IF r.threw
                       THEN IdleMutation
                       ELSE [status |-> "pending",
                             seq |-> started + 1,
                             variables |-> Some([ids |-> ids, status |-> status]),
                             context |-> r.context,
                             before |-> Some(queries)]]
        /\ UNCHANGED server
        /\ lastOp' = (IF r.threw THEN "bulkMutate: onMutate threw" ELSE "bulkMutate")
        /\ UNCHANGED sessionVars
        /\ UNCHANGED retryVars
        /\ UNCHANGED readVars
        /\ UNCHANGED proxy
        /\ UNCHANGED pageVars

\* Promise.all over one PATCH per id: every PATCH is accepted
bulkResponseOk ==
    LET v == mut["bulk"].variables[1]
    IN  /\ mut["bulk"].status = "pending"
        /\ server' = updateTransactionStatus(server, v.ids, v.status)
        /\ queries' = bulkOnSettled(bulkOnSuccess(queries))
        /\ mut' = [mut EXCEPT !["bulk"] = IdleMutation]
        /\ UNCHANGED started
        /\ lastOp' = "bulkResponseOk"
        /\ UNCHANGED sessionVars
        /\ UNCHANGED retryVars
        /\ UNCHANGED readVars
        /\ UNCHANGED proxy
        /\ UNCHANGED pageVars

\* the backend accepts the PATCHes of `ok` only and Promise.all rejects
bulkResponseFails(ok) ==
    LET v == mut["bulk"].variables[1]
    IN  /\ mut["bulk"].status = "pending"
        /\ ok \subseteq v.ids /\ ok # v.ids
        /\ server' = updateTransactionStatus(server, ok, v.status)
        /\ queries' = bulkOnSettled(bulkOnError(queries, mut["bulk"].context))
        /\ mut' = [mut EXCEPT !["bulk"] = IdleMutation]
        /\ UNCHANGED started
        /\ lastOp' = (IF Truthy(mut["bulk"].context[1].previousData)
                         THEN "bulkResponseFails: list restored"
                         ELSE "bulkResponseFails")
        /\ UNCHANGED sessionVars
        /\ UNCHANGED retryVars
        /\ UNCHANGED readVars
        /\ UNCHANGED proxy
        /\ UNCHANGED pageVars

(***************************************************************************)
(* Mutations of hooks/useTransactions: no onMutate, no onSettled; the      *)
(* mutationFn is a PATCH followed by a GET of the transaction.             *)
(***************************************************************************)
\* useUpdateTransactionStatus.onSuccess; the invalidation of the stats is
\* reached only when the updater of setQueriesData did not throw
hookStatusOnSuccess(q, updatedTransaction, id) ==
    LET r == setQueriesData(
                 setQueryData(q, transactionDetail(id), Some(updatedTransaction)),
                 transactions,
                 ServerTxMapper(updatedTransaction))
    IN  [queries |-> IF r.threw THEN r.queries
                     ELSE invalidateQueries(r.queries, transactionStats),
         threw |-> r.threw]

\* onError of the hooks shows a toast
hookOnError(q) == q

\* useBulkUpdateTransactions.onSuccess
hookBulkOnSuccess(q) ==
    invalidateQueries(invalidateQueries(q, transactions), transactionStats)

hookStatusMutate(id, status) ==
    /\ CanMutate("useUpdateTransactionStatus")
    /\ started' = started + 1
    /\ mut' = [mut EXCEPT !["useUpdateTransactionStatus"] =
                 [status |-> "pending",
                  seq |-> started + 1,
                  variables |-> Some([id |-> id, status |-> status, await |-> "PATCH"]),
                  context |-> None,
                  before |-> None]]
    /\ lastOp' = "hookStatusMutate"
    /\ UNCHANGED <<queries, server>>
    /\ UNCHANGED sessionVars
    /\ UNCHANGED retryVars
    /\ UNCHANGED readVars
    /\ UNCHANGED proxy
    /\ UNCHANGED pageVars

\* apiClient.updateTransactionStatus resolves with success; the GET is issued
hookStatusPatchOk ==
    LET m == mut["useUpdateTransactionStatus"]
    IN  /\ m.status = "pending"
        /\ m.variables[1].await = "PATCH"
        /\ server' = updateTransactionStatus(server, {m.variables[1].id}, m.variables[1].status)
        /\ mut' = [mut EXCEPT !["useUpdateTransactionStatus"].variables =
                     Some([m.variables[1] EXCEPT !.await = "GET"])]
        /\ lastOp' = "hookStatusPatchOk"
        /\ UNCHANGED <<queries, started>>
        /\ UNCHANGED sessionVars
        /\ UNCHANGED retryVars
        /\ UNCHANGED readVars
        /\ UNCHANGED proxy
        /\ UNCHANGED pageVars

\* apiClient.getTransaction resolves with the transaction: onSuccess, and
\* onError when onSuccess throws
hookStatusGetOk ==
    LET m == mut["useUpdateTransactionStatus"]
        r == hookStatusOnSuccess(queries, TxOf(server, m.variables[1].id), m.variables[1].id)
    IN  /\ m.status = "pending"
        /\ m.variables[1].await = "GET"
        /\ queries' = IF r.threw THEN hookOnError(r.queries) ELSE r.queries
        /\ mut' = [mut EXCEPT !["useUpdateTransactionStatus"] = IdleMutation]
        /\ lastOp' = (IF r.threw THEN "hookStatusGetOk: onSuccess threw" ELSE "hookStatusGetOk")
        /\ UNCHANGED <<server, started>>
        /\ UNCHANGED sessionVars
        /\ UNCHANGED retryVars
        /\ UNCHANGED readVars
        /\ UNCHANGED proxy
        /\ UNCHANGED pageVars

\* the PATCH or the GET is rejected, or answers without success / data: onError
hookStatusFails ==
    /\ mut["useUpdateTransactionStatus"].status = "pending"
    /\ queries' = hookOnError(queries)
    /\ mut' = [mut EXCEPT !["useUpdateTransactionStatus"] = IdleMutation]
    /\ lastOp' = "hookStatusFails"
    /\ UNCHANGED <<server, started>>
    /\ UNCHANGED sessionVars
    /\ UNCHANGED retryVars
    /\ UNCHANGED readVars
    /\ UNCHANGED proxy
    /\ UNCHANGED pageVars

hookBulkMutate(ids, status) ==
    /\ CanMutate("useBulkUpdateTransactions")
    /\ started' = started + 1
    /\ mut' = [mut EXCEPT !["useBulkUpdateTransactions"] =
                 [status |-> "pending",
                  seq |-> started + 1,
                  variables |-> Some([ids |-> ids, status |-> status]),
                  context |-> None,
                  before |-> None]]
    /\ lastOp' = "hookBulkMutate"
    /\ UNCHANGED <<queries, server>>
    /\ UNCHANGED sessionVars
    /\ UNCHANGED retryVars
    /\ UNCHANGED readVars
    /\ UNCHANGED proxy
    /\ UNCHANGED pageVars

\* every promise of Promise.all resolves: onSuccess
hookBulkOk ==
    LET v == mut["useBulkUpdateTransactions"].variables[1]
    IN  /\ mut["useBulkUpdateTransactions"].status = "pending"
        /\ server' = updateTransactionStatus(server, v.ids, v.status)
        /\ queries' = hookBulkOnSuccess(queries)
        /\ mut' = [mut EXCEPT !["useBulkUpdateTransactions"] = IdleMutation]
        /\ lastOp' = "hookBulkOk"
        /\ UNCHANGED started
        /\ UNCHANGED sessionVars
        /\ UNCHANGED retryVars
        /\ UNCHANGED readVars
        /\ UNCHANGED proxy
        /\ UNCHANGED pageVars

\* one promise rejects after the PATCHes of `ok` were accepted: onError
hookBulkFails(ok) ==
    LET v == mut["useBulkUpdateTransactions"].variables[1]
    IN  /\ mut["useBulkUpdateTransactions"].status = "pending"
        /\ ok \subseteq v.ids
        /\ server' = updateTransactionStatus(server, ok, v.status)
        /\ queries' = hookOnError(queries)
        /\ mut' = [mut EXCEPT !["useBulkUpdateTransactions"] = IdleMutation]
        /\ lastOp' = "hookBulkFails"
        /\ UNCHANGED started
        /\ UNCHANGED sessionVars
        /\ UNCHANGED retryVars
        /\ UNCHANGED readVars
        /\ UNCHANGED proxy
        /\ UNCHANGED pageVars


(***************************************************************************)
(* Retry policy.  The retryer runs the queryFn / mutationFn; when an       *)
(* attempt fails it asks retry(failureCount, error) with the number of     *)
(* failures before this one, and either rejects with the error or counts   *)
(* the failure, sleeps retryDelay(failureCount) and runs the next attempt. *)
(* A failure is named by its HTTP status, 0 standing for no response.      *)
(***************************************************************************)
MaxAttemptIndex == 5

FailStatuses == {0, 400, 401, 403, 404, 500}

\* Math.min(a, b)
MathMin(a, b) == IF a < b THEN a ELSE b

\* a read policy for which every 4xx is terminal
queriesRetry_no4xx(failureCount, status) ==
    IF status # 0 /\ status >= 400 /\ status < 500 THEN FALSE ELSE failureCount < 3

\* defaultOptions.queries.retry
queriesRetry(failureCount, status) ==
    IF status # 0 /\ status \in {401, 403, 404} THEN FALSE ELSE failureCount < 3

\* defaultOptions.queries.retryDelay
queriesRetryDelay(attemptIndex) == MathMin(1000 * 2^attemptIndex, 30000)

mutationsRetry_upTo3(failureCount, status) ==
    IF status # 0 /\ status >= 400 /\ status < 500 THEN FALSE ELSE failureCount < 3

\* defaultOptions.mutations.retry
mutationsRetry(failureCount, status) ==
    IF status # 0 /\ status >= 400 /\ status < 500 THEN FALSE ELSE failureCount < 2

\* defaultOptions.mutations.retryDelay
mutationsRetryDelay(attemptIndex) == MathMin(1000 * 2^attemptIndex, 10000)

\* the retry option in force: the two functions of lib/query-client, and the
\* number 1 given by useCurrentUser and by the QueryClient of the App component
RetryOptions ==
    {[kind |-> "query", retry |-> "queries.retry"],
     [kind |-> "query", retry |-> "1"],
     [kind |-> "mutation", retry |-> "mutations.retry"]}

\* typeof retry === 'number' ? failureCount < retry : retry(failureCount, error)
shouldRetry(option, failureCount, status) ==
    CASE option.retry = "queries.retry" -> queriesRetry(failureCount, status)
      [] option.retry = "mutations.retry" -> mutationsRetry(failureCount, status)
      [] OTHER -> failureCount < 1

retryDelay(option, failureCount) ==
    IF option.kind = "query" THEN queriesRetryDelay(failureCount)
    ELSE mutationsRetryDelay(failureCount)

IdleRetryer ==
    [option |-> None, status |-> "idle", attempts |-> 0, failureCount |-> 0,
     error |-> None, delay |-> None, accepted |-> FALSE]

\* a read or a write starts: the first attempt is running
startOperation(option) ==
    /\ retryer.status \in {"idle", "success", "error"}
    /\ retryer' = [option |-> Some(option), status |-> "fetching", attempts |-> 1,
                   failureCount |-> 0, error |-> None, delay |-> None,
                   accepted |-> FALSE]
    /\ lastOp' = "startOperation"
    /\ UNCHANGED probe
    /\ UNCHANGED <<sessionVars, cacheVars, readVars, proxy, pageVars>>

\* the retryer after the function it runs has thrown an error with `status`
\* (0: an error without a response)
onFail(r, status) ==
    IF shouldRetry(r.option[1], r.failureCount, status)
      THEN [r EXCEPT !.status = "waiting",
                     !.failureCount = @ + 1,
                     !.error = Some(status),
                     !.delay = Some(retryDelay(r.option[1], r.failureCount))]
      ELSE [r EXCEPT !.status = "error", !.error = Some(status)]

\* the running attempt fails with `status`
attemptFails(status) ==
    /\ retryer.status = "fetching"
    /\ retryer' = onFail(retryer, status)
    /\ lastOp' = "attemptFails"
    /\ UNCHANGED probe
    /\ UNCHANGED <<sessionVars, cacheVars, readVars, proxy, pageVars>>

\* the backoff sleep is over: the next attempt runs
retryFires ==
    /\ retryer.status = "waiting"
    /\ retryer' = [retryer EXCEPT !.status = "fetching", !.attempts = @ + 1]
    /\ lastOp' = "retryFires"
    /\ UNCHANGED probe
    /\ UNCHANGED <<sessionVars, cacheVars, readVars, proxy, pageVars>>

attemptSucceeds ==
    /\ retryer.status \in {"fetching", "refetching"}
    /\ retryer' = [retryer EXCEPT !.status = "success"]
    /\ lastOp' = "attemptSucceeds"
    /\ UNCHANGED probe
    /\ UNCHANGED <<sessionVars, cacheVars, readVars, proxy, pageVars>>

\* the mutationFn of a write (useUpdateTransactionStatus, useUpdateFederalHoliday,
\* useCreateTransaction): the backend has answered the write with a 2xx; an
\* envelope without success / data makes the mutationFn throw an Error that
\* has no response, otherwise the follow-up read of the updated entity starts
writeAccepted(ok) ==
    /\ retryer.status = "fetching"
    /\ retryer.option[1].kind = "mutation"
    /\ retryer' = IF ok THEN [retryer EXCEPT !.status = "refetching", !.accepted = TRUE]
                  ELSE onFail([retryer EXCEPT !.accepted = TRUE], 0)
    /\ lastOp' = "writeAccepted"
    /\ UNCHANGED probe
    /\ UNCHANGED <<sessionVars, cacheVars, readVars, proxy, pageVars>>

\* the follow-up read inside the mutationFn fails with `status`
refetchFails(status) ==
    /\ retryer.status = "refetching"
    /\ retryer' = onFail(retryer, status)
    /\ lastOp' = "refetchFails"
    /\ UNCHANGED probe
    /\ UNCHANGED <<sessionVars, cacheVars, readVars, proxy, pageVars>>

\* the two configured retryDelay functions applied to an attempt index
evalRetryDelay(attemptIndex) ==
    /\ probe' = Some([attemptIndex |-> attemptIndex,
                      queries |-> queriesRetryDelay(attemptIndex),
                      mutations |-> mutationsRetryDelay(attemptIndex)])
    /\ lastOp' = "evalRetryDelay"
    /\ UNCHANGED retryer
    /\ UNCHANGED <<sessionVars, cacheVars, readVars, proxy, pageVars>>


(***************************************************************************)
(* The authentication mutations of the hooks (useLogin, useRegister,       *)
(* useLogout).  Each step is the mutation from mutate() to its onSuccess;  *)
(* the hooks touch the query cache only: neither the ApiClient's token nor *)
(* local storage nor the AuthContext is written.                           *)
(***************************************************************************)
\* useLogin: apiClient.login answers with {user, token}; onSuccess caches the
\* user under currentUser and invalidates every query
useLoginSuccess(user, token) ==
    /\ booted
    /\ queries' = invalidateQueries(setQueryData(queries, currentUser, Some(user)), <<>>)
    /\ answer' = Some(Envelope("login", 200, TRUE, Some([user |-> user, token |-> token]), None))
    /\ lastOp' = "useLoginSuccess"
    /\ UNCHANGED <<state, apiToken, ls, pending, booted, redirecting, loggedOut, paired, result>>
    /\ UNCHANGED <<server, mut, started>>
    /\ UNCHANGED <<retryVars, readVars, proxy, pageVars>>

\* useRegister: as useLogin, with apiClient.register
useRegisterSuccess(user, token) ==
    /\ booted
    /\ queries' = invalidateQueries(setQueryData(queries, currentUser, Some(user)), <<>>)
    /\ answer' = Some(Envelope("register", 200, TRUE, Some([user |-> user, token |-> token]), None))
    /\ lastOp' = "useRegisterSuccess"
    /\ UNCHANGED <<state, apiToken, ls, pending, booted, redirecting, loggedOut, paired, result>>
    /\ UNCHANGED <<server, mut, started>>
    /\ UNCHANGED <<retryVars, readVars, proxy, pageVars>>

\* useLogout: the mutationFn is empty; onSuccess is queryClient.clear()
useLogoutSuccess ==
    /\ booted
    /\ queries' = <<>>
    /\ answer' = None
    /\ lastOp' = "useLogoutSuccess"
    /\ UNCHANGED <<state, apiToken, ls, pending, booted, redirecting, loggedOut, paired, result>>
    /\ UNCHANGED <<server, mut, started>>
    /\ UNCHANGED <<retryVars, readVars, proxy, pageVars>>

(***************************************************************************)
(* The read path of the cache.  Per key the model keeps the freshness of   *)
(* the cached value (its age in minutes, counted up to the staleTime of    *)
(* the key's tier; isInvalidated), the callers awaiting the fetch in       *)
(* flight (0: no fetch, 1: one caller, 2: several callers share it) and    *)
(* the number of backend calls in flight                                   *)
(* (a cancelled fetch leaves its call in flight: queryFn ignores the       *)
(* abort signal).  Which queries are observed by a mounted component is an *)
(* input of the steps that depend on it.                                   *)
(***************************************************************************)
MaxCalls == 2

\* staleTimeConfig, in minutes
frequent == 2

normal == 5

\* the reads of the model: useTransactionStats, useTransactions({page: 1, limit: 20})
\* (both also prefetched by DataPrefetcher) and useCurrentUser
ReadKeys == {transactionStats, transactionsList("page1"), currentUser}

staleTime(key) == IF key = currentUser THEN normal ELSE frequent

AbsentRead == [has |-> FALSE, age |-> 0, inv |-> FALSE, waiters |-> 0, calls |-> 0]

isStaleByTime_ignoresAge(r, key) == r.inv \/ ~r.has \/ r.age >= 0

\* Query.isStaleByTime(staleTime): invalidated, without data, or old enough
isStaleByTime(r, key) == r.inv \/ ~r.has \/ r.age >= staleTime(key)

\* what a step did to a key: the entry as the step found it (young: it holds
\* data younger than the staleTime of its tier) and whether the step issued a
\* backend call for it
Event(cause, key, r, call) ==
    [cause |-> cause, key |-> key, young |-> r.has /\ r.age < staleTime(key),
     inv |-> r.inv, fetching |-> r.waiters > 0, call |-> call]

\* Query.fetch() while a fetch is in flight: the caller gets the promise of
\* the running retryer
join(r, awaited) ==
    [r EXCEPT !.waiters = IF awaited THEN 2 ELSE @]

\* Query.fetch() on an idle query: the queryFn is called
start(r) == [r EXCEPT !.waiters = 1, !.calls = @ + 1]

\* Query.fetch(): the state of the query afterwards
fetch(r, awaited) == IF r.waiters > 0 THEN join(r, awaited) ELSE start(r)

\* Query.fetch(undefined, {cancelRefetch: true}): a running fetch of a query
\* that has data is cancelled and a new one is started
refetchCancelling(r) ==
    IF r.waiters > 0 /\ ~r.has THEN r ELSE [r EXCEPT !.waiters = 1, !.calls = @ + 1]

\* Query.invalidate()
invalidate(r) == IF r.has \/ r.waiters > 0 THEN [r EXCEPT !.inv = TRUE] ELSE r

\* does the query exist in the cache
Exists(r) == r.has \/ r.waiters > 0

\* a component calling useQuery for `key` mounts (refetchOnMount: true), or
\* queryClient.prefetchQuery runs for it: fetch when stale, else serve the cache
readQuery(cause, key) ==
    LET r == reads[key]
    IN  /\ reads' = [reads EXCEPT ![key] =
                       IF isStaleByTime(r, key) THEN fetch(r, TRUE) ELSE r]
        /\ events' = {Event(cause, key, r,
                            IF isStaleByTime(r, key)
                              THEN fetch(r, TRUE).calls > r.calls ELSE FALSE)}
        /\ lastOp' = cause
        /\ UNCHANGED <<sessionVars, cacheVars, retryVars, proxy, pageVars>>

useQueryMount(key) == readQuery("useQuery", key)

\* DataPrefetcher.prefetchCriticalData: the current user is prefetched only
\* when the cache has no data for it
prefetchQuery(key) ==
    /\ key = currentUser => ~reads[key].has
    /\ readQuery("prefetchQuery", key)

\* the window regains focus while a component observes `key` with
\* refetchOnWindowFocus: true: only useTransactionStats sets it, the default
\* of the mounted client is false
windowFocus(key) ==
    LET r == reads[key]
    IN  /\ key = transactionStats
        /\ Exists(r)
        /\ reads' = [reads EXCEPT ![key] =
                       IF isStaleByTime(r, key) THEN fetch(r, FALSE) ELSE r]
        /\ events' = {Event("focus", key, r,
                            IF isStaleByTime(r, key)
                              THEN fetch(r, FALSE).calls > r.calls ELSE FALSE)}
        /\ lastOp' = "focus"
        /\ UNCHANGED <<sessionVars, cacheVars, retryVars, proxy, pageVars>>

\* BackgroundRefresh, every 2 minutes while the document has focus:
\* invalidateQueries with refetchType 'none' for the stats and the first page
backgroundRefresh ==
    /\ reads' = [k \in ReadKeys |->
                   IF k \in {transactionStats, transactionsList("page1")}
                     THEN invalidate(reads[k]) ELSE reads[k]]
    /\ events' = {}
    /\ lastOp' = "backgroundRefresh"
    /\ UNCHANGED <<sessionVars, cacheVars, retryVars, proxy, pageVars>>

\* invalidateQueries({queryKey: prefix}) with the default refetchType: every
\* matching query is invalidated, the observed ones (active) are refetched
invalidateAndRefetch(rs, prefix, active) ==
    [k \in ReadKeys |->
       IF partialMatchKey(prefix, k)
         THEN IF k \in active /\ Exists(rs[k])
                THEN refetchCancelling(invalidate(rs[k]))
                ELSE invalidate(rs[k])
         ELSE rs[k]]

\* useCreateTransaction.onSuccess: invalidate the transactions, invalidate the
\* stats, then setQueryData(transactionsList(), updater); no read of the model
\* uses the list without filters, for which the updater returns undefined
createTransactionOnSuccess(rs, active) ==
    invalidateAndRefetch(invalidateAndRefetch(rs, transactions, active),
                         transactionStats, active)

createTransactionSuccess(active) ==
    LET rs == createTransactionOnSuccess(reads, active)
    IN  /\ \A k \in ReadKeys : rs[k].calls <= MaxCalls
        /\ reads' = rs
        /\ events' = {Event("invalidate", k, invalidate(reads[k]),
                            rs[k].calls > reads[k].calls) :
                        k \in {j \in ReadKeys : rs[j] # reads[j]}}
        /\ lastOp' = "createTransactionSuccess"
        /\ UNCHANGED <<sessionVars, cacheVars, retryVars, proxy, pageVars>>

\* the backend answers the call of the running fetch: the data is stored,
\* dataUpdatedAt = now, and every caller awaiting the fetch gets the value
fetchResolves(key) ==
    LET r == reads[key]
    IN  /\ r.waiters > 0
        /\ reads' = [reads EXCEPT ![key] =
                       [has |-> TRUE, age |-> 0, inv |-> FALSE, waiters |-> 0,
                        calls |-> r.calls - 1]]
        /\ events' = {Event("resolve", key, r, FALSE)}
        /\ lastOp' = "fetchResolves"
        /\ UNCHANGED <<sessionVars, cacheVars, retryVars, proxy, pageVars>>

\* the backend answers the call of a cancelled fetch: the answer is dropped
cancelledCallAnswers(key) ==
    LET r == reads[key]
    IN  /\ r.calls > (IF r.waiters > 0 THEN 1 ELSE 0)
        /\ reads' = [reads EXCEPT ![key].calls = @ - 1]
        /\ events' = {}
        /\ lastOp' = "cancelledCallAnswers"
        /\ UNCHANGED <<sessionVars, cacheVars, retryVars, proxy, pageVars>>

\* a minute passes
minutePasses ==
    /\ \E k \in ReadKeys : reads[k].has /\ reads[k].age < staleTime(k)
    /\ reads' = [k \in ReadKeys |->
                   IF reads[k].has /\ reads[k].age < staleTime(k)
                     THEN [reads[k] EXCEPT !.age = @ + 1] ELSE reads[k]]
    /\ events' = {}
    /\ lastOp' = "minutePasses"
    /\ UNCHANGED <<sessionVars, cacheVars, retryVars, proxy, pageVars>>


(***************************************************************************)
(* The reverse proxy (route handler of /api/proxy/[...path]).  An inbound  *)
(* request is its path segments, the query string of its URL as sent, its  *)
(* Authorization header (None: absent; the header may be present with an   *)
(* empty value) and its body (None: no body).  The backend either answers  *)
(* with a status and a content type, or cannot be reached.                 *)
(***************************************************************************)
BACKEND_URL == "https://backend"

\* inbound requests: paths, query strings, Authorization headers, bodies
\* (well-formed JSON or not) and whether reading the body succeeds
Inbound ==
    [path : {<<"transactions">>, <<"transactions", "123", "status">>},
     query : {"", "q=a%20b"},
     authorization : {None, Some(""), Some("Bearer token-1")},
     body : {None, Some("{\"success\":true}"), Some("{\"status\":")},
     readable : BOOLEAN]

\* answers of the backend; None: the backend cannot be reached (fetch rejects)
BackendAnswers ==
    {Some([status |-> 200, contentType |-> "application/json", body |-> "{\"success\":true}"]),
     Some([status |-> 200, contentType |-> "application/json", body |-> "{ \"success\": true }"]),
     Some([status |-> 404, contentType |-> "application/json", body |-> "{\"success\":false}"]),
     Some([status |-> 200, contentType |-> "text/plain", body |-> "OK"]),
     Some([status |-> 200, contentType |-> "application/json", body |-> "<html>"]),
     Some([status |-> 204, contentType |-> "", body |-> ""]),
     None}

\* params.path.join('/')
RECURSIVE pathJoin(_)
pathJoin(path) ==
    IF Len(path) = 1 THEN Head(path) ELSE Head(path) \o "/" \o pathJoin(Tail(path))

\* new URL(request.url).searchParams.toString(): the query is parsed and
\* serialised again as application/x-www-form-urlencoded
searchParamsToString(query) ==
    IF query = "q=a%20b" THEN "q=a+b" ELSE query

\* JSON.parse (request.json(), response.json()): the value, or None when the
\* text is not JSON (a SyntaxError is thrown)
jsonParse(text) ==
    CASE text \in {"{\"success\":true}", "{ \"success\": true }"} ->
           Some([kind |-> "object", value |-> "success:true"])
      [] text = "{\"success\":false}" ->
           Some([kind |-> "object", value |-> "success:false"])
      [] OTHER -> None

\* JSON.stringify: an object is serialised, a string becomes a JSON string
jsonStringify(data) ==
    IF data.kind = "string" THEN "\"" \o data.value \o "\""
    ELSE IF data.value = "success:true" THEN "{\"success\":true}"
    ELSE "{\"success\":false}"

\* NextResponse.json(data, {status}): a Response with a body cannot have a
\* null body status (204, 205, 304); the constructor throws a TypeError
jsonResponseThrows(status) == status \in {204, 205, 304}

\* the answer of the catch blocks
InternalServerError ==
    [status |-> 500, contentType |-> "application/json",
     body |-> "{\"success\":false,\"error\":\"Internal server error\"}"]

\* the response relay of handleRequest: response.json() or response.text(),
\* NextResponse.json(data, {status}), then the backend's content-type header
relay(backend) ==
    LET isJson == backend.contentType = "application/json"
        parsed == jsonParse(backend.body)
        data == IF isJson THEN parsed[1] ELSE [kind |-> "string", value |-> backend.body]
    IN  IF isJson /\ parsed = None
          THEN [threw |-> {"response.json"}, response |-> InternalServerError]
        ELSE IF jsonResponseThrows(backend.status)
          THEN [threw |-> {"NextResponse.json"}, response |-> InternalServerError]
        ELSE [threw |-> {},
              response |-> [status |-> backend.status,
                            contentType |-> IF backend.contentType # ""
                                              THEN backend.contentType
                                              ELSE "application/json",
                            body |-> jsonStringify(data)]]

\* handleRequest: the backend request it issues, the exceptions thrown on the
\* way and the response it returns
handleRequest(request, method, backend) ==
    LET searchParams == searchParamsToString(request.query)
        queryString == IF searchParams # "" THEN "?" \o searchParams ELSE ""
        authHeader == request.authorization
        readFails == method # "GET" /\ ~request.readable
        text == IF request.body = None \/ readFails THEN "" ELSE request.body[1]
        out == IF backend = None
                 THEN [threw |-> {"fetch"}, response |-> InternalServerError]
                 ELSE relay(backend[1])
    IN  [route |-> "proxy",
         inbound |-> request,
         method |-> method,
         backend |-> backend,
         fetched |-> << [method |-> method,
                         url |-> BACKEND_URL \o "/api/" \o pathJoin(request.path)
                                    \o queryString,
                         authorization |-> IF authHeader # None /\ authHeader[1] # ""
                                             THEN authHeader ELSE None,
                         body |-> IF method # "GET" /\ text # ""
                                    THEN Some(text) ELSE None] >>,
         threw |-> out.threw \cup (IF readFails THEN {"request.text"} ELSE {}),
         status |-> out.response.status,
         response |-> out.response]

\* the exported route handlers
GET(request, backend) ==
    /\ proxy = None
    /\ proxy' = Some(handleRequest(request, "GET", backend))
    /\ lastOp' = "GET"
    /\ UNCHANGED <<sessionVars, cacheVars, retryVars, readVars, pageVars>>

POST(request, backend) ==
    /\ proxy = None
    /\ proxy' = Some(handleRequest(request, "POST", backend))
    /\ lastOp' = "POST"
    /\ UNCHANGED <<sessionVars, cacheVars, retryVars, readVars, pageVars>>

PUT(request, backend) ==
    /\ proxy = None
    /\ proxy' = Some(handleRequest(request, "PUT", backend))
    /\ lastOp' = "PUT"
    /\ UNCHANGED <<sessionVars, cacheVars, retryVars, readVars, pageVars>>

DELETE(request, backend) ==
    /\ proxy = None
    /\ proxy' = Some(handleRequest(request, "DELETE", backend))
    /\ lastOp' = "DELETE"
    /\ UNCHANGED <<sessionVars, cacheVars, retryVars, readVars, pageVars>>

PATCH(request, backend) ==
    /\ proxy = None
    /\ proxy' = Some(handleRequest(request, "PATCH", backend))
    /\ lastOp' = "PATCH"
    /\ UNCHANGED <<sessionVars, cacheVars, retryVars, readVars, pageVars>>

\* POST of the route /api/auth/register: request.json(), one backend request
\* with the body serialised again, response.json(), NextResponse.json
registerRoutePOST(request, backend) ==
    LET body == IF request.body = None \/ ~request.readable
                  THEN None ELSE jsonParse(request.body[1])
        answer0 == IF backend = None THEN None ELSE jsonParse(backend[1].body)
        threw == IF body = None THEN {"request.json"}
                 ELSE IF backend = None THEN {"fetch"}
                 ELSE IF answer0 = None THEN {"response.json"}
                 ELSE IF jsonResponseThrows(backend[1].status) THEN {"NextResponse.json"}
                 ELSE {}
        response == IF threw # {} THEN InternalServerError
                    ELSE [status |-> backend[1].status,
                          contentType |-> "application/json",
                          body |-> jsonStringify(answer0[1])]
    IN  /\ proxy = None
        /\ proxy' = Some([route |-> "register",
                          inbound |-> request,
                          method |-> "POST",
                          backend |-> backend,
                          fetched |-> IF body = None THEN <<>>
                                      ELSE << [method |-> "POST",
                                               url |-> BACKEND_URL \o "/api/auth/register",
                                               authorization |-> None,
                                               body |-> Some(jsonStringify(body[1]))] >>,
                          threw |-> threw,
                          status |-> response.status,
                          response |-> response])
        /\ lastOp' = "registerRoutePOST"
        /\ UNCHANGED <<sessionVars, cacheVars, retryVars, readVars, pageVars>>

\* the route handler has returned its response
responseReturned ==
    /\ proxy # None
    /\ proxy' = None
    /\ lastOp' = "responseReturned"
    /\ UNCHANGED <<sessionVars, cacheVars, retryVars, readVars, pageVars>>

(***************************************************************************)
(* The route guard (Next.js middleware).  A pathname is a sequence of      *)
(* tokens, each a piece of the path string: pathname.startsWith(route) is  *)
(* the prefix test on the tokens; the matcher of the exported config       *)
(* decides whether the middleware runs at all.                             *)
(***************************************************************************)
MaxPathLen == 4

\* the pieces pathnames are made of
PathTokens == {"/", "dashboard", "login", "api", ".", "settings"}

\* the pathnames of the requests: "/" followed by up to MaxPathLen - 1 pieces
Pathnames ==
    UNION { { <<"/">> \o rest : rest \in [1..n -> PathTokens] } : n \in 0..(MaxPathLen - 1) }

\* String.prototype.startsWith
startsWith(pathname, route) ==
    /\ Len(pathname) >= Len(route)
    /\ SubSeq(pathname, 1, Len(route)) = route

protectedRoutes == { <<"/", "dashboard">> }

\* config.matcher: '/((?!api|_next/static|_next/image|favicon.ico|login|register|.*\\.).*)'
\* the path after the first slash neither starts with an excluded word nor
\* contains a dot
matcher(pathname) ==
    /\ Len(pathname) > 1 => pathname[2] \notin {"api", "login"}
    /\ \A i \in 2..Len(pathname) : pathname[i] # "."

\* the answer to a navigation: the middleware when the matcher selects the
\* path, otherwise the request passes
route(pathname) ==
    IF ~matcher(pathname) THEN "next"
    ELSE IF \E r \in protectedRoutes : startsWith(pathname, r) THEN "/login"
    ELSE IF pathname = <<"/">> THEN "/login"
    ELSE "next"

\* middleware(request); the session token of the browser is not an input
middleware(pathname, token) ==
    /\ guard' = Some([pathname |-> pathname, token |-> token, answer |-> route(pathname)])
    /\ lastOp' = "middleware"
    /\ UNCHANGED <<sessionVars, cacheVars, retryVars, readVars, proxy, filters, pagination, mounted>>


(***************************************************************************)
(* The transactions page: the filters state and the pagination controls.   *)
(***************************************************************************)
MaxPages == 3

\* the filter fields other than page, with the values a user picks
FilterValues ==
    [status |-> {None, Some("pending"), Some("failed")},
     organizationKey |-> {"", "org-1"},
     traceNumber |-> {"", "0001"}]

\* useState initial value of filters, also what clearFilters sets
initialFilters ==
    [page |-> 1, status |-> None, organizationKey |-> "", traceNumber |-> ""]

\* prev => ({...prev, [key]: value, page: 1})
withFilter(prev, key, value) == [[prev EXCEPT ![key] = value] EXCEPT !.page = 1]

\* handleFilterChange(key, value) from a filter input
handleFilterChange(key, value) ==
    /\ filters' = withFilter(filters, key, value)
    /\ lastOp' = "handleFilterChange"
    /\ UNCHANGED <<sessionVars, cacheVars, retryVars, readVars, proxy, guard, pagination, mounted>>

\* the Previous / Next buttons, rendered when totalPages > 1 and enabled
\* unless page <= 1 / page >= totalPages:
\* handleFilterChange('page', Math.max(1, page - 1) / Math.min(totalPages, page + 1))
paginationClick(button) ==
    /\ pagination.totalPages > 1
    /\ IF button = "next" THEN ~(filters.page >= pagination.totalPages)
       ELSE ~(filters.page <= 1)
    /\ filters' = withFilter(filters, "page",
                             IF button = "next"
                               THEN MathMin(pagination.totalPages, filters.page + 1)
                               ELSE IF filters.page - 1 > 1 THEN filters.page - 1 ELSE 1)
    /\ lastOp' = button
    /\ UNCHANGED <<sessionVars, cacheVars, retryVars, readVars, proxy, guard, pagination, mounted>>

clearFilters ==
    /\ filters' = initialFilters
    /\ lastOp' = "clearFilters"
    /\ UNCHANGED <<sessionVars, cacheVars, retryVars, readVars, proxy, guard, pagination, mounted>>

\* loadData: the list response carries the pagination of the result
setPagination(totalPages) ==
    /\ pagination' = [totalPages |-> totalPages]
    /\ lastOp' = "setPagination"
    /\ UNCHANGED <<sessionVars, cacheVars, retryVars, readVars, proxy, guard, filters, mounted>>


(***************************************************************************)
(* queryKeys and the hooks that read through them.                         *)
(***************************************************************************)
allSystemConfig == <<"config", "all">>

specificConfig(key) == <<"config", key>>

holidaysList(year) == <<"holidays", "list", year>>

businessDayCheck(date) == <<"businessDays", "check", date>>

nextBusinessDay(date) == <<"businessDays", "next", date>>

\* the reads the hooks offer: <<hook, argument>>
Hooks ==
    {<<"useSystemConfig", None>>, <<"useTransactionStats", None>>}
    \cup {<<"useSystemConfigByKey", key>> : key \in {"all", "ach.cutoff"}}
    \cup {<<"useFederalHolidays", year>> : year \in {None, Some(2025)}}
    \cup {<<"useBusinessDayCheck", date>> : date \in {"2025-07-04"}}
    \cup {<<"useNextBusinessDay", date>> : date \in {"2025-07-04"}}
    \cup {<<"useTransactions", f>> : f \in Filters \cup {NoFilters}}
    \cup {<<"useTransaction", id>> : id \in {"t1"}}

\* the queryKey option each hook passes to useQuery
queryKey(read) ==
    CASE read[1] = "useSystemConfig" -> allSystemConfig
      [] read[1] = "useSystemConfigByKey" -> specificConfig(read[2])
      [] read[1] = "useFederalHolidays" -> holidaysList(read[2])
      [] read[1] = "useBusinessDayCheck" -> businessDayCheck(read[2])
      [] read[1] = "useNextBusinessDay" -> nextBusinessDay(read[2])
      [] read[1] = "useTransactions" -> transactionsList(read[2])
      [] read[1] = "useTransaction" -> transactionDetail(read[2])
      [] read[1] = "useTransactionStats" -> transactionStats

\* a component using the hook mounts
useQuery(read) ==
    /\ read \notin mounted
    /\ mounted' = mounted \cup {read}
    /\ lastOp' = "useQuery"
    /\ UNCHANGED <<sessionVars, cacheVars, retryVars, readVars, proxy, guard, filters, pagination>>

\* the component unmounts
unmount(read) ==
    /\ read \in mounted
    /\ mounted' = mounted \ {read}
    /\ lastOp' = "unmount"
    /\ UNCHANGED <<sessionVars, cacheVars, retryVars, readVars, proxy, guard, filters, pagination>>

(***************************************************************************)
(* Specification of the session layer                                      *)
(***************************************************************************)
AuthInit ==
    /\ state = initialState
    /\ ls = [authToken |-> None, userData |-> None]
    /\ apiToken = None
    /\ pending = {}
    /\ booted = FALSE
    /\ redirecting = FALSE
    /\ lastOp = "init"
    /\ loggedOut = FALSE
    /\ paired = FALSE
    /\ answer = None
    /\ result = None

CacheInit ==
    /\ queries = <<>>
    /\ server = [id \in TxIds |-> [status |-> "pending", rev |-> 0]]
    /\ mut = [o \in Owners |-> IdleMutation]
    /\ started = 0

RetryInit ==
    /\ retryer = IdleRetryer
    /\ probe = None

ReadsInit ==
    /\ reads = [k \in ReadKeys |-> AbsentRead]
    /\ events = {}

Init == AuthInit /\ CacheInit /\ RetryInit /\ ReadsInit /\ proxy = None /\ guard = None
          /\ filters = initialFilters /\ pagination = [totalPages |-> 0]
          /\ mounted = {}

Next ==
    \/ checkAuth
    \/ Reload
    \/ loginStart
    \/ \E c \in pending, u \in Users, t \in Tokens : loginSuccess(c, u, t)
    \/ \E c \in pending, e \in EnvelopeErrors : loginFailure(c, e)
    \/ registerStart
    \/ \E c \in pending, u \in Users, t \in Tokens : registerSuccess(c, u, t)
    \/ \E c \in pending, e \in EnvelopeErrors : registerFailure(c, e)
    \/ logout
    \/ \E p \in ProfileUpdates : updateProfileStart(p)
    \/ \E c \in pending : updateProfileSuccess(c)
    \/ apiCallStart
    \/ downloadStart
    \/ \E c \in pending, e \in EnvelopeErrors : callSettles(c, e)
    \/ \E c \in pending : responseInterceptor401(c)
    \/ \E c \in pending, st \in RejectStatuses : responseInterceptorOther(c, st)

Spec == Init /\ [][Next]_vars

(***************************************************************************)
(* Specification of the query cache under the optimistic components        *)
(***************************************************************************)
StatusNew == {"failed"}

BulkNew == {"processed"}

CacheNext ==
    \/ \E k \in QueryKeys : QueryFetch(k)
    \/ \E s \in StatusNew : statusMutate(s)
    \/ statusResponseOk
    \/ statusResponseFails
    \/ \E ids \in (SUBSET TxIds) \ {{}}, s \in BulkNew : bulkMutate(ids, s)
    \/ bulkResponseOk
    \/ \E ok \in SUBSET TxIds : bulkResponseFails(ok)

SpecCache == Init /\ [][CacheNext]_vars

(***************************************************************************)
(* Specification of the query cache under the mutations of the hooks       *)
(***************************************************************************)
HooksNext ==
    \/ \E k \in QueryKeys : QueryFetch(k)
    \/ \E s \in StatusNew : hookStatusMutate(StatusTx, s)
    \/ hookStatusPatchOk
    \/ hookStatusGetOk
    \/ hookStatusFails
    \/ \E ids \in (SUBSET TxIds) \ {{}}, s \in BulkNew : hookBulkMutate(ids, s)
    \/ hookBulkOk
    \/ \E ok \in SUBSET TxIds : hookBulkFails(ok)

SpecHooks == Init /\ [][HooksNext]_vars

(***************************************************************************)
(* Specification of the retry policy                                       *)
(***************************************************************************)
RetryNext ==
    \/ \E o \in RetryOptions : startOperation(o)
    \/ \E st \in FailStatuses : attemptFails(st)
    \/ retryFires
    \/ attemptSucceeds
    \/ \E ok \in BOOLEAN : writeAccepted(ok)
    \/ \E st \in FailStatuses : refetchFails(st)
    \/ \E k \in 0..MaxAttemptIndex : evalRetryDelay(k)

SpecRetry == Init /\ [][RetryNext]_vars

(***************************************************************************)
(* Specification of the read path                                          *)
(***************************************************************************)
ReadsNext ==
    \/ \E k \in ReadKeys : useQueryMount(k)
    \/ \E k \in ReadKeys : prefetchQuery(k)
    \/ \E k \in ReadKeys : windowFocus(k)
    \/ backgroundRefresh
    \/ \E active \in SUBSET ReadKeys : createTransactionSuccess(active)
    \/ \E k \in ReadKeys : fetchResolves(k)
    \/ \E k \in ReadKeys : cancelledCallAnswers(k)
    \/ minutePasses

SpecReads == Init /\ [][ReadsNext]_vars

(***************************************************************************)
(* Specification of the reverse proxy                                      *)
(***************************************************************************)
ProxyNext ==
    \/ \E request \in Inbound, backend \in BackendAnswers : GET(request, backend)
    \/ \E request \in Inbound, backend \in BackendAnswers : POST(request, backend)
    \/ \E request \in Inbound, backend \in BackendAnswers : PUT(request, backend)
    \/ \E request \in Inbound, backend \in BackendAnswers : DELETE(request, backend)
    \/ \E request \in Inbound, backend \in BackendAnswers : PATCH(request, backend)
    \/ \E request \in Inbound, backend \in BackendAnswers :
          registerRoutePOST(request, backend)
    \/ responseReturned

SpecProxy == Init /\ [][ProxyNext]_vars

(***************************************************************************)
(* Specification of the route guard                                        *)
(***************************************************************************)
GuardNext == \E pathname \in Pathnames, token \in {None} \cup {Some(t) : t \in Tokens} :
                 middleware(pathname, token)

SpecGuard == Init /\ [][GuardNext]_vars

(***************************************************************************)
(* Specification of the session under the AuthContext and the hooks        *)
(***************************************************************************)
AuthHooksNext ==
    \/ checkAuth
    \/ loginStart
    \/ \E c \in pending, u \in Users, t \in Tokens : loginSuccess(c, u, t)
    \/ logout
    \/ QueryFetch(transactionStats)
    \/ \E u \in Users, t \in Tokens : useLoginSuccess(u, t)
    \/ \E u \in Users, t \in Tokens : useRegisterSuccess(u, t)
    \/ useLogoutSuccess

SpecAuthHooks == Init /\ [][AuthHooksNext]_vars

(***************************************************************************)
(* Specification of the transactions page                                  *)
(***************************************************************************)
PageNext ==
    \/ \E key \in DOMAIN FilterValues : \E value \in FilterValues[key] :
          handleFilterChange(key, value)
    \/ \E button \in {"previous", "next"} : paginationClick(button)
    \/ clearFilters
    \/ \E n \in 0..MaxPages : setPagination(n)

SpecPage == Init /\ [][PageNext]_vars

(***************************************************************************)
(* Specification of the mounted reads                                      *)
(***************************************************************************)
KeysNext ==
    \/ \E read \in Hooks : useQuery(read)
    \/ \E read \in Hooks : unmount(read)

SpecKeys == Init /\ [][KeysNext]_vars

(***************************************************************************)
(* Properties of the session layer (specification Spec)                    *)
(***************************************************************************)
\* C1: in the authentication store, whatever app start, login, register,
\* logout and updateProfile have dispatched so far, isAuthenticated is true
\* if and only if both user and token are non-null.
C1_AuthenticatedIffUserAndToken ==
    state.isAuthenticated <=> (state.user # None /\ state.token # None)

\* an authenticated store after an UPDATE_USER that merged the profile update
C1_Witness ==
    /\ lastOp = "updateProfileSuccess"
    /\ state.isAuthenticated
    /\ state.user # None
    /\ state.user[1].email = "new@x"

\* C8 (as stated): after the response interceptor has handled a 401, the
\* client's token is cleared, both local-storage keys authToken and userData
\* are removed (the persisted state logout() leaves) and the browser is being
\* redirected to /login.
C8_Unauthorized401ClearsLikeLogout ==
    lastOp = "401" =>
        /\ apiToken = None
        /\ ls = [authToken |-> None, userData |-> None]
        /\ redirecting

\* C9 (as stated): once logout() has run and until the next successful login
\* or registration, isAuthenticated is false and every backend call issued
\* in that period, by an ApiClient method or by the NACHA download, carries
\* no Authorization header.
C9_NoAuthorizationAfterLogout ==
    /\ loggedOut => ~state.isAuthenticated
    /\ \A c \in pending : c.afterLogout => c.auth = None

\* C10: a logout() step clears the client's token, removes authToken and
\* userData from local storage, leaves the store with user = null,
\* token = null, isAuthenticated = false, all in that one step, and issues
\* no backend call.
C10_LogoutClearsSynchronously ==
    [][lastOp' = "logout" =>
          /\ apiToken' = None
          /\ ls' = [authToken |-> None, userData |-> None]
          /\ state'.user = None
          /\ state'.token = None
          /\ ~state'.isAuthenticated
          /\ pending' = pending]_vars

\* logout() ran while a call that was issued with a token is still in flight
C10_Witness ==
    /\ lastOp = "logout"
    /\ \E c \in pending : c.auth # None
    /\ ~state.isAuthenticated
    /\ ls = [authToken |-> None, userData |-> None]

(***************************************************************************)
(* Properties of the query cache under the optimistic components           *)
(* (specification SpecCache).  A step is recognised by the lastOp it sets; *)
(* the unprimed mut holds the mutation's variables, its context (the       *)
(* snapshot) and the cache as it was before onMutate.                      *)
(***************************************************************************)
StatusFailOps == {"statusResponseFails", "statusResponseFails: list restored"}

BulkFailOps == {"bulkResponseFails", "bulkResponseFails: list restored"}

StatusOkOps == {"statusResponseOk", "statusResponseOk: onSuccess threw"}

\* the ids a running mutation of owner o changes, and the status it sets
MutatedIds(o) == IF o = "status" THEN {StatusTx} ELSE mut[o].variables[1].ids

MutatedStatus(o) == IF o = "status" THEN mut[o].variables[1] ELSE mut[o].variables[1].status

\* the snapshot of transactionsList() in the context of owner o's running mutation
ListSnapshot(o) ==
    IF o = "status" THEN mut[o].context[1].previousTransactions
    ELSE mut[o].context[1].previousData

\* the keys whose values onMutate stores in the context
SnapshotKeys(o) ==
    IF o = "status" THEN {transactionDetail(StatusTx), transactionsList(NoFilters)}
    ELSE {transactionsList(NoFilters)}

\* the entries of cache q that hold an array with a row of one of the ids
ListsWith(q, ids) ==
    {i \in 1..Len(q) :
       /\ Truthy(q[i].data)
       /\ IsArray(q[i].data[1])
       /\ \E k \in DOMAIN q[i].data[1].items : q[i].data[1].items[k].id \in ids}

\* C2: when the backend call of an optimistic status mutation (single or bulk)
\* fails, after onError every entry captured in its snapshot holds exactly the
\* snapshotted value, and running the same rollback once more changes nothing.
C2_RollbackRestoresSnapshot ==
    [][/\ lastOp' \in StatusFailOps =>
            LET ctx == mut["status"].context
            IN  /\ Truthy(ctx[1].previousTransaction) =>
                      getQueryData(queries', transactionDetail(StatusTx))
                        = ctx[1].previousTransaction
                /\ Truthy(ctx[1].previousTransactions) =>
                      getQueryData(queries', transactionsList(NoFilters))
                        = ctx[1].previousTransactions
                /\ statusOnError(statusOnError(queries, ctx), ctx)
                     = statusOnError(queries, ctx)
       /\ lastOp' \in BulkFailOps =>
            LET ctx == mut["bulk"].context
            IN  /\ Truthy(ctx[1].previousData) =>
                      getQueryData(queries', transactionsList(NoFilters))
                        = ctx[1].previousData
                /\ bulkOnError(bulkOnError(queries, ctx), ctx)
                     = bulkOnError(queries, ctx)]_vars

\* a failed bulk update was rolled back from a captured snapshot: the list
\* shows no row with the status the update had written
C2_Witness ==
    /\ lastOp = "bulkResponseFails: list restored"
    /\ Truthy(getQueryData(queries, transactionsList(NoFilters)))
    /\ \A k \in 1..Len(TxOrder) :
          getQueryData(queries, transactionsList(NoFilters))[1].items[k].status = "pending"

\* C3 (as stated): the snapshot taken by onMutate covers every cache entry the
\* optimistic write modifies, and after a failed mutation every entry the
\* optimistic write modified holds its pre-mutation value.
C3_SnapshotCoversOptimisticWrite ==
    [][/\ \A o \in OptimisticOwners :
            (mut[o].status # "pending" /\ mut'[o].status = "pending") =>
               \A i \in 1..Len(queries) :
                  queries'[i].data # queries[i].data
                    => queries[i].queryKey \in SnapshotKeys(o)
       /\ \A o \in OptimisticOwners :
            (lastOp' \in (IF o = "status" THEN StatusFailOps ELSE BulkFailOps)) =>
               LET before == mut[o].before[1]
               IN  \A i \in ListsWith(before, MutatedIds(o)) :
                      getQueryData(queries', before[i].queryKey) = before[i].data]_vars

\* C4 (as stated): when the bulk mutation starts, every list in the cache
\* shows the new status for all selected ids; when the backend call fails for
\* one of the ids, every selected id is back to its pre-mutation status in
\* every list.
C4_BulkAllOrNothing ==
    [][/\ lastOp' = "bulkMutate" =>
            \A i \in ListsWith(queries', mut'["bulk"].variables[1].ids) :
               \A k \in DOMAIN queries'[i].data[1].items :
                  queries'[i].data[1].items[k].id \in mut'["bulk"].variables[1].ids
                    => queries'[i].data[1].items[k].status
                         = mut'["bulk"].variables[1].status
       /\ lastOp' \in BulkFailOps =>
            LET before == mut["bulk"].before[1]
            IN  \A i \in ListsWith(before, MutatedIds("bulk")) :
                   \A k \in DOMAIN before[i].data[1].items :
                      before[i].data[1].items[k].id \in MutatedIds("bulk")
                        => getQueryData(queries', before[i].queryKey)[1].items[k].status
                             = before[i].data[1].items[k].status]_vars

\* C5 (as stated): when the backend accepts an optimistic status mutation,
\* every list that received the optimistic value holds, for each mutated id,
\* the transaction the server returned, and the stats entry is invalidated.
C5_SuccessWritesServerTransaction ==
    [][\A o \in OptimisticOwners :
          (lastOp' \in (IF o = "status" THEN StatusOkOps ELSE {"bulkResponseOk"})) =>
             LET before == mut[o].before[1]
             IN  /\ \A i \in ListsWith(before, MutatedIds(o)) :
                       \A k \in DOMAIN before[i].data[1].items :
                          before[i].data[1].items[k].id \in MutatedIds(o)
                            => getQueryData(queries', before[i].queryKey)[1].items[k]
                                 = TxOf(server', before[i].data[1].items[k].id)
                 /\ IndexOf(queries', transactionStats) # 0
                      => queries'[IndexOf(queries', transactionStats)].isInvalidated]_vars

\* C7: overlapping optimistic mutations are not serialized and no generation
\* check guards a rollback: when the backend call of a mutation fails while a
\* later-started mutation is still in flight, the rollback writes the earlier
\* mutation's snapshot of transactionsList() over whatever the entry holds.
C7_OlderRollbackOverwritesNewerWrite ==
    [][\A o \in OptimisticOwners : \A p \in OptimisticOwners \ {o} :
          (/\ lastOp' \in (IF o = "status" THEN StatusFailOps ELSE BulkFailOps)
           /\ mut[p].status = "pending"
           /\ mut[o].seq < mut[p].seq
           /\ Truthy(ListSnapshot(o)))
            => getQueryData(queries', transactionsList(NoFilters)) = ListSnapshot(o)]_vars

\* the single update (started first: the bulk update's snapshot holds its
\* optimistic "failed") has failed and rolled back while the bulk update is
\* still in flight; the list no longer shows the bulk update's status
C7_Witness ==
    /\ lastOp = "statusResponseFails: list restored"
    /\ mut["bulk"].status = "pending"
    /\ Truthy(mut["bulk"].context[1].previousData)
    /\ \E k \in 1..Len(TxOrder) :
          /\ mut["bulk"].context[1].previousData[1].items[k].id = StatusTx
          /\ mut["bulk"].context[1].previousData[1].items[k].status = "failed"
    /\ \E k \in 1..Len(TxOrder) :
          /\ getQueryData(queries, transactionsList(NoFilters))[1].items[k].id
               \in mut["bulk"].variables[1].ids
          /\ getQueryData(queries, transactionsList(NoFilters))[1].items[k].status
               # mut["bulk"].variables[1].status

(***************************************************************************)
(* Properties of the query cache under the mutations of the hooks          *)
(* (specification SpecHooks)                                               *)
(***************************************************************************)
HookSettleOps ==
    {"hookStatusGetOk", "hookStatusGetOk: onSuccess threw", "hookStatusFails",
     "hookBulkOk", "hookBulkFails"}

\* C6 (as stated, for the status and bulk status updates of the hooks): when
\* the mutation settles, with success or with failure, the transaction stats
\* held by the cache are invalidated.
C6_DerivedEntriesInvalidatedOnEveryOutcome ==
    [][lastOp' \in HookSettleOps =>
          (IndexOf(queries', transactionStats) # 0
             => queries'[IndexOf(queries', transactionStats)].isInvalidated)]_vars

(***************************************************************************)
(* Properties of login, register and app start (specification Spec)       *)
(***************************************************************************)
\* C11: right after login received an envelope with success = true and data
\* {user, token}, local storage holds authToken = that token and userData =
\* the serialized user, the API client holds that token, and the store is
\* authenticated with that user and token and isLoading = false.
C11_LoginPersistsTokenAndUser ==
    lastOp = "loginSuccess" =>
        /\ ls = [authToken |-> Some(answer[1].data[1].token),
                 userData |-> Some(JSONstringify(Some(answer[1].data[1].user)))]
        /\ apiToken = Some(answer[1].data[1].token)
        /\ state.isAuthenticated
        /\ state.user = Some(answer[1].data[1].user)
        /\ state.token = Some(answer[1].data[1].token)
        /\ ~state.isLoading
        /\ result = Some(Returned(TRUE, None))

\* a login as user uB with token tB has just succeeded
C11_Witness ==
    /\ lastOp = "loginSuccess"
    /\ answer # None
    /\ answer[1].data[1].token = "tB"
    /\ answer[1].data[1].user.id = "uB"
    /\ ls.authToken = Some("tB")

\* C12 (as stated): right after a successful register, local storage holds
\* both the token (authToken) and the user record (userData) the backend
\* returned, and the store is authenticated.
C12_RegisterPersistsTokenAndUser ==
    lastOp = "registerSuccess" =>
        /\ ls = [authToken |-> Some(answer[1].data[1].token),
                 userData |-> Some(JSONstringify(Some(answer[1].data[1].user)))]
        /\ state.isAuthenticated

\* C13 (as stated): when a login or register started from the unauthenticated
\* state fails, by an envelope with success = false or by a rejected call, the
\* store stays unauthenticated, local storage and the client's token are not
\* written, and the error returned to the caller is the error field of the
\* backend's envelope, when it has one.
C13_FailureReturnsEnvelopeError ==
    [][(/\ answer' # None
        /\ answer'[1].kind \in {"login", "register"}
        /\ ~answer'[1].success
        /\ ~state.isAuthenticated)
         => /\ ~state'.isAuthenticated
            /\ ls' = ls
            /\ apiToken' = apiToken
            /\ Truthy(answer'[1].error) => result'[1].error = answer'[1].error]_vars

\* C14: the mount effect leaves the initial loading state with isLoading =
\* false, authenticated exactly when a token is persisted, without issuing a
\* backend call; with a token but no usable cached user record the store
\* holds the placeholder user temp-user, whose role is admin.
C14_AppStartRestoresOrFabricates ==
    [][lastOp' = "checkAuth" =>
          /\ ~state'.isLoading
          /\ state'.isAuthenticated <=> Truthy(ls.authToken)
          /\ ~state'.isAuthenticated => (state'.user = None /\ state'.token = None)
          /\ state'.isAuthenticated => state'.token = ls.authToken
          /\ pending' = pending
          /\ (Truthy(ls.authToken) /\ Truthy(ls.userData) /\ JSONvalid(ls.userData[1]))
                => state'.user = JSONparse(ls.userData[1])
          /\ (Truthy(ls.authToken) /\ ~(Truthy(ls.userData) /\ JSONvalid(ls.userData[1])))
                => (/\ state'.user # None
                    /\ state'.user[1].id = "temp-user"
                    /\ state'.user[1].role = "admin")]_vars

\* app start with a persisted token and no cached user: the placeholder
C14_Witness ==
    /\ lastOp = "checkAuth"
    /\ state.isAuthenticated
    /\ ls.userData = None
    /\ state.user = Some(minimalUser)

(***************************************************************************)
(* Properties of the retry policy (specification SpecRetry)                *)
(***************************************************************************)
Is4xx(status) == status >= 400 /\ status < 500

\* C15 (as stated): a read makes at most 4 attempts (3 retries), and a read
\* that failed with 401, 403 or 404 is never waiting for a retry.
C15_ReadsRetryAtMostThreeTimes ==
    (retryer.option # None /\ retryer.option[1].kind = "query") =>
        /\ retryer.attempts <= 4
        /\ retryer.failureCount <= 3
        /\ retryer.status = "waiting" => retryer.error[1] \notin {401, 403, 404}

C17_RetryDecisionPerKind ==
    [][lastOp' = "attemptFails" =>
          (retryer'.status = "waiting"
             <=> CASE retryer.option[1].retry = "mutations.retry" ->
                        ~Is4xx(retryer'.error[1]) /\ retryer.failureCount < 2
                   [] retryer.option[1].retry = "queries.retry" ->
                        retryer'.error[1] \notin {401, 403, 404}
                          /\ retryer.failureCount < 3
                   [] OTHER -> retryer.failureCount < 1)]_vars

\* C17 (as stated): a retry is scheduled only after a 5xx or a network
\* failure, never after a 4xx, for reads as well as for writes.
C17_OnlyServerAndNetworkFailuresRetried ==
    retryer.status = "waiting" => ~Is4xx(retryer.error[1])

\* a read under the default policy is waiting to be retried after a 400
C17_Witness ==
    /\ retryer.option # None
    /\ retryer.option[1].retry = "queries.retry"
    /\ retryer.status = "waiting"
    /\ retryer.error = Some(400)

(***************************************************************************)
(* Properties of the read path (specification SpecReads)                   *)
(***************************************************************************)
ReadCauses == {"useQuery", "prefetchQuery", "focus"}

\* C18 (as stated): a cached read younger than the staleness duration of its
\* tier never triggers a network call, whatever reads, mutations,
\* background-refresh ticks and window-focus events happen.
C18_YoungEntryNeverCallsNetwork ==
    \A e \in events : e.call => ~e.young

\* C18 (amended): a backend call is issued for a key whose cached value is
\* younger than the staleness duration of its tier only if the entry is
\* invalidated; a read (mount, prefetch, window focus) of a young entry that
\* is not invalidated is served from the cache without a backend call.
C18_YoungEntryCallsNetworkOnlyWhenInvalidated ==
    \A e \in events : e.call => (~e.young \/ e.inv)

\* a young, not invalidated entry was read and served from the cache, after
\* an earlier read of the same tier went to the network
C18_Witness ==
    /\ \E e \in events : e.cause \in ReadCauses /\ e.young /\ ~e.inv /\ ~e.call
    /\ \E k \in ReadKeys : reads[k].has /\ reads[k].age > 0

\* C19: two reads issued concurrently with an identical key make exactly one
\* backend call (the second read joins the fetch in flight), and at no time
\* is more than one backend call in flight for one key.
C19_OneFetchInFlightPerKey ==
    /\ \A e \in events : (e.cause \in ReadCauses /\ e.fetching) => ~e.call
    /\ \A k \in ReadKeys : reads[k].calls <= 1

(***************************************************************************)
(* Properties of the reverse proxy (specification SpecProxy)               *)
(***************************************************************************)
\* C20: for every method, path and query string the proxy issues exactly one
\* backend request with the same method to {BACKEND_URL}/api/{path}?{query},
\* sends the inbound body unmodified for non-GET methods and no body for
\* GET, forwards the Authorization header if and only if it is present, and
\* returns the backend's exact status code.
C20_ProxyForwardsFaithfully ==
    (proxy # None /\ proxy[1].route = "proxy") =>
      LET p == proxy[1]
          q == p.inbound
          sent == p.fetched[1]
      IN  /\ Len(p.fetched) = 1
          /\ sent.method = p.method
          /\ sent.url = BACKEND_URL \o "/api/" \o pathJoin(q.path)
                          \o (IF q.query = "" THEN "" ELSE "?" \o q.query)
          /\ sent.body = (IF p.method = "GET" THEN None ELSE q.body)
          /\ (sent.authorization # None) <=> (q.authorization # None)
          /\ sent.authorization # None => sent.authorization = q.authorization
          /\ p.backend # None => p.status = p.backend[1].status

\* C21: on any internal exception while handling a proxied request (backend
\* network failure, failure to read the inbound body, malformed body) the
\* proxy responds with status 500 and exactly the envelope
\* {success: false, error: "Internal server error"}.
C21_ExceptionGivesGenericEnvelope ==
    proxy # None =>
      LET p == proxy[1]
          malformed == /\ p.method # "GET"
                       /\ p.inbound.body # None
                       /\ jsonParse(p.inbound.body[1]) = None
      IN  (p.threw # {} \/ malformed) => p.response = InternalServerError

\* C22: the reverse proxy relays the backend's response content verbatim: a
\* JSON body is returned as the same JSON value, a non-JSON body as the same
\* raw text, in both cases with the backend's content-type.
C22_ContentRelayedVerbatim ==
    (proxy # None /\ proxy[1].route = "proxy" /\ proxy[1].threw = {}) =>
      LET answered == proxy[1].backend[1]
          response == proxy[1].response
      IN  /\ response.contentType = answered.contentType
          /\ IF answered.contentType = "application/json"
               THEN jsonParse(response.body) = jsonParse(answered.body)
               ELSE response.body = answered.body

(***************************************************************************)
(* Properties of the route guard (specification SpecGuard)                 *)
(***************************************************************************)
\* C23 (as stated): every path that starts with a protected prefix
\* (/dashboard) is redirected to /login regardless of any session token, the
\* root path is redirected to /login, every other path passes through.
C23_GuardIsFunctionOfPathPrefix ==
    guard # None =>
      guard[1].answer =
        (IF startsWith(guard[1].pathname, <<"/", "dashboard">>) \/ guard[1].pathname = <<"/">>
           THEN "/login" ELSE "next")

(***************************************************************************)
(* Further properties of the session layer (specification Spec)            *)
(***************************************************************************)
\* C24: the persisted user and the persisted token always originate from the
\* same login or registration response, so that the user restored at app
\* start is the one the backend returned together with the persisted token.
C24_PersistedUserMatchesToken ==
    (Truthy(ls.authToken) /\ Truthy(ls.userData)) => paired

(***************************************************************************)
(* Further properties of the retry policy (specification SpecRetry)        *)
(***************************************************************************)
\* C25: a write that the backend has answered with a 2xx is never sent again
\* by the automatic retry of the same mutation invocation.
C25_AcceptedWriteNeverResent ==
    (retryer.status = "fetching" /\ retryer.attempts > 1) => ~retryer.accepted

(***************************************************************************)
(* Further properties of the optimistic components (specification SpecCache) *)
(***************************************************************************)
\* C26: the handlers that patch the cached lists through the key prefix
\* ['transactions'] complete without error for any cache contents: onMutate
\* never throws, so the backend write is always issued after it, and an
\* update the backend accepted never settles through a throwing onSuccess.
C26_PrefixPatchNeverThrows ==
    /\ lastOp \notin {"statusMutate: onMutate threw", "bulkMutate: onMutate threw",
                      "statusResponseOk: onSuccess threw"}
    /\ lastOp \in {"statusMutate", "statusMutate: onMutate threw"}
         => mut["status"].status = "pending"
    /\ lastOp \in {"bulkMutate", "bulkMutate: onMutate threw"}
         => mut["bulk"].status = "pending"

(***************************************************************************)
(* Properties of the authentication hooks (specification SpecAuthHooks)    *)
(***************************************************************************)
\* C27: after useLogin or useRegister succeeds the API client holds the
\* token the backend returned, and after useLogout succeeds the API client
\* holds no token and local storage has no authToken.
C27_HooksKeepClientTokenInStep ==
    /\ lastOp \in {"useLoginSuccess", "useRegisterSuccess"}
         => apiToken = Some(answer[1].data[1].token)
    /\ lastOp = "useLogoutSuccess" => (apiToken = None /\ ls.authToken = None)

\* C28: after a logout (AuthContext.logout or the useLogout mutation) no
\* server data cached during the ended session remains in the query cache.
C28_LogoutEmptiesQueryCache ==
    lastOp \in {"logout", "useLogoutSuccess"} =>
        \A i \in 1..Len(queries) : queries[i].data = None

(***************************************************************************)
(* Properties of the transactions page (specification SpecPage)            *)
(***************************************************************************)
\* C29: activating Next on page p < totalPages sets filters.page to p + 1,
\* activating Previous on page p > 1 sets it to p - 1, changing any other
\* filter resets filters.page to 1, and filters.page stays within
\* 1..max(1, totalPages).
C29_PaginationMovesByOnePage ==
    [][/\ lastOp' = "next" => filters'.page = filters.page + 1
       /\ lastOp' = "previous" => filters'.page = filters.page - 1
       /\ lastOp' = "handleFilterChange" => filters'.page = 1
       /\ filters'.page >= 1
       /\ filters'.page <= (IF pagination'.totalPages > 1 THEN pagination'.totalPages ELSE 1)]_vars

(***************************************************************************)
(* Properties of the cache keys (specification SpecKeys)                   *)
(***************************************************************************)
\* C30: two mounted reads of different resources, or of the same resource
\* with different arguments, never use the same cache key; in particular
\* the all-configuration list and a single-configuration read never do.
C30_QueryKeysInjective ==
    \A a \in mounted : \A b \in mounted :
        a[1] # b[1] \/ a[2] # b[2] => queryKey(a) # queryKey(b)

====
